---- MODULE Spec2Model ----
(***************************************************************************)
(* Vault Linker: cross-vault index synchronisation and resolution.         *)
(*                                                                         *)
(* The model follows the latest main.ts (src/unnamed/part_000, lines       *)
(* 302-1065) and the latest settings tab (src/src/settings.ts, lines       *)
(* 63-279).  One store, the local one, runs the plugin; the other stores   *)
(* are seen through the files they keep on disk and through the writes     *)
(* their own plugin instances make into the local store's files.           *)
(*                                                                         *)
(* Text (hrefs, file names) is a sequence of one-character strings, so     *)
(* that parsing is computed and not assumed.  path.* is Node's posix       *)
(* flavour.                                                                *)
(***************************************************************************)
EXTENDS Integers, Sequences, FiniteSets, TLC

VARIABLES
    settings,            \* this.settings: neighborVaults, discoveredVaults, other fields
    disk,                \* per store: the plugin directories under <store>/.obsidian/plugins
    siblings,            \* the directory entries of settings.parentVaultFolder
    pendingSaves,        \* saveData() calls whose write has not landed yet
    globalIndex,         \* this.globalIndex
    negativeCache,       \* this.negativeCache
    normalizationCache,  \* this.normalizationCache
    lookupCache,         \* this.lookupCache
    isLoadingIndices,    \* this.isLoadingIndices
    runs,                \* loadRemoteIndices() calls suspended at await Promise.all
    dom,                 \* the rendered document: hrefs of its links, srcs of its embeds
    linkClass,           \* rendered links that carry the class cross-vault-link
    embedProcessed,      \* rendered embeds that carry the class cross-vault-processed
    renders,             \* history: per embed element, the renderRemoteEmbed calls that got past the mark check
    hasCompleted,        \* history: some loadRemoteIndices run has completed
    askedFalse,          \* history: hrefs isRemoteMatch has answered false for
    lastOp,              \* history: the handler that ran last, with what it observed
    lastGossip,          \* history: the ensureBidirectionalLink call of the last step
    docs,                \* app.vault.getMarkdownFiles(): the local documents, in its order
    timer,               \* the debouncer of generateLocalIndex: "idle" or "armed"
    built,               \* history: the index the last generateLocalIndex call built
    peerOps,             \* per other store: its ensureBidirectionalLink call on this store
    writes,              \* generateLocalIndex() calls suspended at await writeFile
    observer             \* initDomObserver: pendingElements, rafId, and what was processed

vars == <<settings, disk, siblings, pendingSaves, globalIndex, negativeCache,
          normalizationCache, lookupCache, isLoadingIndices, runs, dom, linkClass,
          embedProcessed, renders, hasCompleted, askedFalse, lastOp, lastGossip, docs, timer,
          built, peerOps, writes, observer>>

settingsVars == <<settings, disk, siblings, pendingSaves, lastGossip>>
\* what the resolution engine and the settings tab leave alone
asideVars == <<peerOps, writes, observer>>
indexVars == <<docs, timer, built, asideVars>>
engineVars == <<globalIndex, negativeCache, normalizationCache, lookupCache,
                isLoadingIndices, runs, dom, linkClass, embedProcessed, renders, hasCompleted,
                askedFalse>>

-----------------------------------------------------------------------------
(* Bounds of the model *)

\* loadRemoteIndices runs that may be in flight at the same time
MaxRuns == 2
\* saveData writes that may be in flight at the same time
MaxSaves == 1
\* the entries of the scanned parent folder: at most
MaxEntries == 3
\* the characters of a parsed href: at most
MaxHref == 3
\* the lines of an embedded remote document: at most
MaxLines == 3

-----------------------------------------------------------------------------
(* Text *)

Null == "null"
Md == <<".", "m", "d">>

Max(S) == CHOOSE x \in S : \A y \in S : y <= x
Min(S) == CHOOSE x \in S : \A y \in S : x <= y

\* String.prototype.includes for a single character
includes(s, c) == \E i \in 1..Len(s) : s[i] = c

\* Array.prototype.includes
Contains(list, x) == \E i \in 1..Len(list) : list[i] = x

\* positions of character c in s
Positions(s, c) == {i \in 1..Len(s) : s[i] = c}

\* href.split('#')[0] and href.split('#')[1] (undefined is given as <<>>,
\* which every use in the source turns into '' or replaces with || )
SplitPart0(s) ==
    IF Positions(s, "#") = {} THEN s
    ELSE SubSeq(s, 1, Min(Positions(s, "#")) - 1)
SplitPart1(s) ==
    LET hs == Positions(s, "#") IN
    IF hs = {} THEN <<>>
    ELSE LET first == Min(hs)
             later == {i \in hs : i > first}
             stop  == IF later = {} THEN Len(s) ELSE Min(later) - 1
         IN SubSeq(s, first + 1, stop)

\* path.basename (posix): trailing slashes dropped, then the last component
basename(p) ==
    LET e == Max({i \in 1..Len(p) : p[i] # "/"} \cup {0})
        b == Max({i \in 1..e : p[i] = "/"} \cup {0}) + 1
    IN SubSeq(p, b, e)

\* path.extname (posix): the text from the last '.' of the last component, '' when
\* there is no '.', when it is the component's first character, or for '..'
extname(p) ==
    LET comp == basename(p)
        dots == Positions(comp, ".")
    IN IF dots = {} \/ Max(dots) = 1 \/ comp = <<".", ".">> THEN <<>>
       ELSE SubSeq(comp, Max(dots), Len(comp))

\* normalizeFilename without its memo: append '.md' when the name has no extension
NormalizeFresh(name) == IF extname(name) # <<>> THEN name ELSE name \o Md

\* a Map kept as a function: has / get
Has(map, k) == k \in DOMAIN map
Put(map, k, v) == [x \in DOMAIN map \cup {k} |-> IF x = k THEN v ELSE map[x]]
EmptyMap == [x \in {} |-> Null]

\* normalizeFilename(name): [ret, norm] is the value returned and the memo after;
\* variant B keeps a memo of one entry
NormalizeMissSingle(norm, name, result) ==
    [ret |-> result, norm |-> Put(EmptyMap, name, result)]
NormalizeMiss(norm, name, result) == [ret |-> result, norm |-> Put(norm, name, result)]
normalizeFilename(norm, name) ==
    IF Has(norm, name) THEN [ret |-> norm[name], norm |-> norm]
    ELSE NormalizeMiss(norm, name, NormalizeFresh(name))

\* a || b for strings
OrElse(a, b) == IF a # <<>> THEN a ELSE b

\* parseLinkHref: lookupName, then baseName, the name handed to normalizeFilename
LookupName(href) == IF includes(href, "#") THEN OrElse(SplitPart0(href), href) ELSE href
BaseOf(lookupName) ==
    IF includes(lookupName, "/") \/ includes(lookupName, "\\")
    THEN basename(lookupName) ELSE lookupName
ParseBaseName(href) == BaseOf(LookupName(href))

\* parseLinkHref(href): [filename, anchor, norm]
Parsed(href, n) ==
    [filename |-> n.ret,
     anchor   |-> IF includes(href, "#") THEN SplitPart1(href) ELSE <<>>,
     norm     |-> n.norm]
parseLinkHref(norm, href) == Parsed(href, normalizeFilename(norm, ParseBaseName(href)))

-----------------------------------------------------------------------------
(* Stores and their files *)

\* the running store's root path (app.vault.adapter.basePath) and the other stores
LocalPath == "L"
Peers == {"P", "Q"}
Stores == {LocalPath} \cup Peers

PLUGIN_ID == "vault-linker"
LegacyDir == "Vault-Linker"

\* absent files, files that do not parse, and parsed JSON
NoIndex  == [kind |-> "none", files |-> EmptyMap]
BadIndex == [kind |-> "bad",  files |-> EmptyMap]
JsonIndex(files) == [kind |-> "json", files |-> files]
\* a file caught half-written (files: what the text written so far lists) and a
\* file readFile is refused
PartialIndex(files) == [kind |-> "partial", files |-> files]
DeniedIndex == [kind |-> "denied", files |-> EmptyMap]

FileInfo(path, mtime) == [path |-> path, mtime |-> mtime]

\* the plugin directory `name` of a store, as a 0- or 1-element sequence
DirsNamed(store, name) == SelectSeq(disk[store], LAMBDA d : d.name = name)
IndexAt(store, name) ==
    IF DirsNamed(store, name) = <<>> THEN NoIndex ELSE DirsNamed(store, name)[1].index

\* a plugin directory under <store>/.obsidian/plugins.  manifest is "none" (no
\* manifest.json), "bad" (it does not parse), "other" (another plugin's id) or
\* "match" (id vault-linker); data is what data.json holds; index what index.json holds
PluginDir(name, manifest, data, index) ==
    [name |-> name, manifest |-> manifest, data |-> data, index |-> index]

\* data.json: kind is "none" (no file), "bad" (not valid JSON) or "json"; hasNv and
\* hasDv tell whether the object has the field neighborVaults / discoveredVaults;
\* other stands for every other field of the object
NoData  == [kind |-> "none", hasNv |-> FALSE, nv |-> <<>>, hasDv |-> FALSE, dv |-> <<>>,
            other |-> "-"]
BadData == [NoData EXCEPT !.kind = "bad"]
JsonData(hasNv, nv, hasDv, dv, other) ==
    [kind |-> "json", hasNv |-> hasNv, nv |-> nv, hasDv |-> hasDv, dv |-> dv,
     other |-> other]

\* this.settings and what saveData writes of it
SettingsOf(nv, dv, other) ==
    [neighborVaults |-> nv, discoveredVaults |-> dv, other |-> other]
DataOf(st) == JsonData(TRUE, st.neighborVaults, TRUE, st.discoveredVaults, st.other)

\* Array.prototype.filter(v => v !== x)
Without(list, x) == SelectSeq(list, LAMBDA v : v # x)

-----------------------------------------------------------------------------
(* ensureBidirectionalLink *)

\* remotePluginDir: the first directory, in readdir order, whose manifest has the
\* plugin's id; failing that the directory named vault-linker, then Vault-Linker;
\* <<>> is null
ManifestDirs(dirs) == SelectSeq(dirs, LAMBDA d : d.manifest = "match")
HasDir(dirs, name) == \E i \in 1..Len(dirs) : dirs[i].name = name
remotePluginDir(dirs) ==
    IF ManifestDirs(dirs) # <<>> THEN <<ManifestDirs(dirs)[1].name>>
    ELSE IF HasDir(dirs, PLUGIN_ID) THEN <<PLUGIN_ID>>
    ELSE IF HasDir(dirs, LegacyDir) THEN <<LegacyDir>>
    ELSE <<>>

\* data.json of the directory `name`
DataIn(dirs, name) == SelectSeq(dirs, LAMBDA d : d.name = name)[1].data
WriteData(dirs, name, data) ==
    [i \in 1..Len(dirs) |-> IF dirs[i].name = name THEN [dirs[i] EXCEPT !.data = data]
                            ELSE dirs[i]]

\* g is [data, changed]: the parsed object and the flag `changed`

\* "Initialize if missing"; variant B builds a fresh object of the two lists
InitializedFresh(data) == [data EXCEPT !.hasNv = TRUE, !.hasDv = TRUE, !.other = "-"]
Initialized(data) == [data EXCEPT !.hasNv = TRUE, !.hasDv = TRUE]

Known(data, v) == Contains(data.nv, v) \/ Contains(data.dv, v)
Suggested(g, v) == [data |-> [g.data EXCEPT !.dv = Append(@, v)], changed |-> TRUE]

\* "1. Suggest THIS vault"; variant B sets the flag outside the if
SuggestThisFlagged(g, currentVaultPath) ==
    IF ~Known(g.data, currentVaultPath)
    THEN Suggested(g, currentVaultPath) ELSE [g EXCEPT !.changed = TRUE]
SuggestThis(g, currentVaultPath) ==
    IF ~Known(g.data, currentVaultPath) THEN Suggested(g, currentVaultPath) ELSE g

\* one iteration of "2. Gossip"; variant B lacks the `continue`
GossipNeighborNoSkip(g, neighbor, remoteVaultPath) ==
    IF ~Known(g.data, neighbor) THEN Suggested(g, neighbor) ELSE g
GossipNeighbor(g, neighbor, remoteVaultPath) ==
    IF neighbor = remoteVaultPath THEN g
    ELSE IF ~Known(g.data, neighbor) THEN Suggested(g, neighbor) ELSE g

RECURSIVE GossipLoop(_, _, _)
GossipLoop(g, neighbors, remoteVaultPath) ==
    IF neighbors = <<>> THEN g
    ELSE GossipLoop(GossipNeighbor(g, Head(neighbors), remoteVaultPath),
                    Tail(neighbors), remoteVaultPath)

\* from JSON.parse to the end of the gossip loop
Gossiped(data, currentVaultPath, neighbors, remoteVaultPath) ==
    GossipLoop(SuggestThis([data |-> Initialized(data), changed |-> FALSE],
                           currentVaultPath),
               neighbors, remoteVaultPath)

\* lastGossip when the last step made no ensureBidirectionalLink call
NoGossip == [op |-> "none", self |-> "-", remote |-> "-", neighbors |-> <<>>,
             dir |-> <<>>, before |-> NoData, wrote |-> FALSE]
GossipRec(self, neighbors, remote, dir, before, wrote) ==
    [op |-> "ensure", self |-> self, remote |-> remote, neighbors |-> neighbors,
     dir |-> dir, before |-> before, wrote |-> wrote]

\* ensureBidirectionalLink(remoteVaultPath) run by the store currentVaultPath whose
\* settings.neighborVaults is neighbors, on the files dk: [disk, rec]
EnsureWritten(dk, self, neighbors, remote, name, data, g) ==
    [disk |-> IF g.changed THEN [dk EXCEPT ![remote] = WriteData(@, name, g.data)]
              ELSE dk,
     rec  |-> GossipRec(self, neighbors, remote, <<name>>, data, g.changed)]
\* variant B takes a missing data.json for an empty object
EnsureAtCreating(dk, self, neighbors, remote, name, data) ==
    IF data.kind = "bad"
    THEN [disk |-> dk, rec |-> GossipRec(self, neighbors, remote, <<name>>, data, FALSE)]
    ELSE EnsureWritten(dk, self, neighbors, remote, name, data,
                       Gossiped([data EXCEPT !.kind = "json"], self, neighbors, remote))
EnsureAt(dk, self, neighbors, remote, name, data) ==
    IF data.kind # "json"
    THEN [disk |-> dk, rec |-> GossipRec(self, neighbors, remote, <<name>>, data, FALSE)]
    ELSE EnsureWritten(dk, self, neighbors, remote, name, data,
                       Gossiped(data, self, neighbors, remote))
EnsureIn(dk, self, neighbors, remote, dir) ==
    IF dir = <<>>
    THEN [disk |-> dk, rec |-> GossipRec(self, neighbors, remote, <<>>, NoData, FALSE)]
    ELSE EnsureAt(dk, self, neighbors, remote, dir[1], DataIn(dk[remote], dir[1]))
ensureBidirectionalLink(dk, self, neighbors, remote) ==
    EnsureIn(dk, self, neighbors, remote, remotePluginDir(dk[remote]))

\* ensureBidirectionalLink run by another store, a process of its own, in two
\* steps: up to the end of the gossip loop over what readFileSync returned
\* (state "read", g the object it holds), and writeFileSync (state "done")
PeerIdle == [state |-> "idle", dir |-> <<>>, g |-> [data |-> NoData, changed |-> FALSE]]
PeerHolds(dir, g) == [state |-> "read", dir |-> dir, g |-> g]
PeerDone == [PeerIdle EXCEPT !.state = "done"]
PeerReadAt(self, neighbors, remote, dir) ==
    IF dir = <<>> THEN PeerDone
    ELSE IF DataIn(disk[remote], dir[1]).kind # "json" THEN PeerDone
    ELSE PeerHolds(dir, Gossiped(DataIn(disk[remote], dir[1]), self, neighbors, remote))
PeerWritten(dk, remote, op) ==
    IF op.g.changed THEN [dk EXCEPT ![remote] = WriteData(@, op.dir[1], op.g.data)] ELSE dk

\* initDomObserver at rest
\* initDomObserver's closure: pendingElements (a Set, kept in insertion order),
\* rafScheduled, and frames, the requestAnimationFrame callbacks not yet run;
\* due is the history of the elements added and not processed since
ObserverIdle == [pending |-> <<>>, rafScheduled |-> FALSE, frames |-> 0, due |-> {}]

-----------------------------------------------------------------------------
(* Lookups and their caches.  c is the record of the plugin's lookup state:   *)
(* gi (globalIndex), norm, lookup, neg (the three caches), loading (the flag) *)

Engine == [gi |-> globalIndex, norm |-> normalizationCache, lookup |-> lookupCache,
           neg |-> negativeCache, loading |-> isLoadingIndices]

\* globalIndex.get(filename) || null ; null is given as <<>>: every caller
\* treats null and an empty list alike (matches && matches.length > 0)
IndexGet(gi, filename) == IF Has(gi, filename) THEN gi[filename] ELSE <<>>

\* A value of lookupCache is null (<<>>) or the array object held by globalIndex
\* under one key (<<key>>): the cache stores the array itself, so later pushes
\* by a merge show through it.
CachedMatches(gi, v) == IF v = <<>> THEN <<>> ELSE IndexGet(gi, v[1])

\* lookupInGlobalIndex(href): [ret, c]
LookupStore(c, href, p, result) ==
    [ret |-> CachedMatches(c.gi, result),
     c   |-> [c EXCEPT !.norm = p.norm, !.lookup = Put(@, href, result)]]
LookupMiss(c, href, p) ==
    LookupStore(c, href, p, IF Has(c.gi, p.filename) THEN <<p.filename>> ELSE <<>>)
lookupInGlobalIndex(c, href) ==
    IF Has(c.lookup, href)
    THEN [ret |-> CachedMatches(c.gi, c.lookup[href]), c |-> c]
    ELSE LookupMiss(c, href, parseLinkHref(c.norm, href))

\* isRemoteMatch(href): [ret, c, readNeg], readNeg telling whether negativeCache
\* was consulted.  On a miss the log line parses the href once more, then the
\* href goes into negativeCache; variant B forgets the miss.
MissForgotten(c, href, p) ==
    [ret |-> FALSE, c |-> [c EXCEPT !.norm = p.norm], readNeg |-> TRUE]
MissLogged(c, href, p) ==
    [ret |-> FALSE, c |-> [c EXCEPT !.norm = p.norm, !.neg = @ \cup {href}],
     readNeg |-> TRUE]
MatchedAny(href, l) == [ret |-> TRUE, c |-> l.c, readNeg |-> TRUE]
Matched(href, l) ==
    IF Len(l.ret) > 0 THEN [ret |-> TRUE, c |-> l.c, readNeg |-> TRUE]
    ELSE MissLogged(l.c, href, parseLinkHref(l.c.norm, href))
isRemoteMatch(c, href) ==
    IF c.loading THEN [ret |-> FALSE, c |-> c, readNeg |-> FALSE]
    ELSE IF href \in c.neg THEN [ret |-> FALSE, c |-> c, readNeg |-> TRUE]
    ELSE Matched(href, lookupInGlobalIndex(c, href))

-----------------------------------------------------------------------------
(* The rendered document: link and embed elements, one per href *)

NameN == <<"n", ".", "m", "d">>
NameZ == <<"z", ".", "m", "d">>
NameLocal == <<"l", ".", "m", "d">>

HrefAnchor == <<"d", "/", "n", "#", "h">>
HrefZ      == <<"z">>

\* the elements querySelectorAll finds, in document order
DomLinks  == dom.links
DomEmbeds == dom.embeds
Range(seq) == {seq[i] : i \in 1..Len(seq)}

\* the local store's own documents (app.vault.getMarkdownFiles)
LocalDocs == {NameLocal}

\* isFileResolvedLocally / isLinkResolvedLocally: metadataCache.getFirstLinkpathDest
\* finds a local document for the link path
isFileResolvedLocally(pathStr) == NormalizeFresh(basename(pathStr)) \in LocalDocs
isLinkResolvedLocally(href) == isFileResolvedLocally(LookupName(href))

\* d is the record of what the DOM handlers read and write:
\* c (the lookup state), links (linkClass), embeds (embedProcessed), af (askedFalse),
\* rn (renders)
Dom == [c |-> Engine, links |-> linkClass, embeds |-> embedProcessed, af |-> askedFalse,
        rn |-> renders]

\* isRemoteMatch as the DOM handlers call it, with the history of false answers
Asked(d, href, r) ==
    [ret |-> r.ret,
     d   |-> [d EXCEPT !.c = r.c, !.af = IF r.ret THEN @ ELSE @ \cup {href}]]
AskRemote(d, href) == Asked(d, href, isRemoteMatch(d.c, href))

\* processLink(el) for the link element of href h
LinkAsked(h, a) == IF a.ret THEN [a.d EXCEPT !.links = @ \cup {h}] ELSE a.d
processLink(d, h) == IF h \in d.links THEN d ELSE LinkAsked(h, AskRemote(d, h))

\* renderRemoteEmbed up to its first await: the mark, the parse and the lookup
\* rn counts the calls that got here, "twice or more" as 2; variant B leaves
\* the mark to the part after the first await
Rendered(rn, src) == Put(rn, src, IF Has(rn, src) THEN 2 ELSE 1)
RenderLookedUnmarked(d, src, l) == [d EXCEPT !.rn = Rendered(@, src), !.c = l.c]
RenderLooked(d, src, l) ==
    [d EXCEPT !.embeds = @ \cup {src}, !.rn = Rendered(@, src), !.c = l.c]
RenderParsed(d, src, p) ==
    RenderLooked(d, src, lookupInGlobalIndex([d.c EXCEPT !.norm = p.norm], src))
renderRemoteEmbed(d, src) ==
    IF src \in d.embeds THEN d ELSE RenderParsed(d, src, parseLinkHref(d.c.norm, src))

\* processEmbed(embed) for the embed element of src
EmbedAsked(src, a) == IF a.ret THEN renderRemoteEmbed(a.d, src) ELSE a.d
processEmbed(d, src) ==
    IF src \in d.embeds THEN d
    ELSE IF src \in d.c.neg THEN d
    ELSE IF isFileResolvedLocally(src) THEN d
    ELSE EmbedAsked(src, AskRemote(d, src))

RECURSIVE ProcessLinks(_, _)
ProcessLinks(d, els) ==
    IF els = <<>> THEN d ELSE ProcessLinks(processLink(d, Head(els)), Tail(els))

RECURSIVE ProcessEmbeds(_, _)
ProcessEmbeds(d, els) ==
    IF els = <<>> THEN d ELSE ProcessEmbeds(processEmbed(d, Head(els)), Tail(els))

\* refreshActiveLeaves(): every link, then every embed; variant B leaves the
\* open views as they are
refreshActiveLeavesSkipped(d) == d
refreshActiveLeaves(d) == ProcessEmbeds(ProcessLinks(d, DomLinks), DomEmbeds)

-----------------------------------------------------------------------------
(* loadRemoteIndices and loadSingleRemoteIndex *)

\* the first four statements of loadRemoteIndices; variant B leaves
\* negativeCache as it is
ClearedForLoadKeepNeg(c) ==
    [gi |-> EmptyMap, norm |-> EmptyMap, lookup |-> EmptyMap, neg |-> c.neg, loading |-> TRUE]
ClearedForLoad(c) ==
    [gi |-> EmptyMap, norm |-> EmptyMap, lookup |-> EmptyMap, neg |-> {}, loading |-> TRUE]

\* the statements of loadRemoteIndices after await Promise.all, before the refresh:
\* the flag goes down and variant B keeps a stale lookupCache
AfterLoadKeepLookup(c) == [c EXCEPT !.loading = FALSE, !.neg = {}]
AfterLoad(c) == [c EXCEPT !.loading = FALSE, !.neg = {}, !.lookup = EmptyMap]

\* loadSingleRemoteIndex up to its await: the index path it settles on, as the
\* plugin directory's name; <<>> when neither location has an index.json
IndexDirOfLegacyFirst(vaultPath) ==
    IF IndexAt(vaultPath, LegacyDir).kind # "none" THEN <<LegacyDir>>
    ELSE IF IndexAt(vaultPath, PLUGIN_ID).kind # "none" THEN <<PLUGIN_ID>>
    ELSE <<>>
IndexDirOf(vaultPath) ==
    IF IndexAt(vaultPath, PLUGIN_ID).kind # "none" THEN <<PLUGIN_ID>>
    ELSE IF IndexAt(vaultPath, LegacyDir).kind # "none" THEN <<LegacyDir>>
    ELSE <<>>

\* the reads one loadRemoteIndices call leaves outstanding, one per neighbor with
\* an index.json
StartedReads(neighborVaults) ==
    {[pos |-> i, vault |-> neighborVaults[i], dir |-> IndexDirOf(neighborVaults[i])[1]] :
        i \in {j \in 1..Len(neighborVaults) : IndexDirOf(neighborVaults[j]) # <<>>}}

\* the merge loop of loadSingleRemoteIndex; variant B sets the list where the
\* loop pushes onto it
MergeIndexReplace(gi, vaultPath, files) ==
    [f \in DOMAIN gi \cup DOMAIN files |->
        IF f \in DOMAIN files
        THEN <<[vaultPath |-> vaultPath, fileInfo |-> files[f]]>> ELSE IndexGet(gi, f)]
MergeIndex(gi, vaultPath, files) ==
    [f \in DOMAIN gi \cup DOMAIN files |->
        IndexGet(gi, f) \o
        (IF f \in DOMAIN files
         THEN <<[vaultPath |-> vaultPath, fileInfo |-> files[f]]>> ELSE <<>>)]

\* what one settled readFile does to the map: JSON.parse and the merge loop, or
\* the catch that leaves the map alone; variant B merges what a half-written
\* file lists
MergeReadLenient(gi, r) ==
    IF IndexAt(r.vault, r.dir).kind \in {"json", "partial"}
    THEN MergeIndex(gi, r.vault, IndexAt(r.vault, r.dir).files)
    ELSE gi
MergeRead(gi, r) ==
    IF IndexAt(r.vault, r.dir).kind = "json"
    THEN MergeIndex(gi, r.vault, IndexAt(r.vault, r.dir).files)
    ELSE gi

RemoveAt(seq, i) == SubSeq(seq, 1, i - 1) \o SubSeq(seq, i + 1, Len(seq))

\* lastOp when the last step was none of the calls the history follows
NoOp == [op |-> "none", href |-> <<>>, ret |-> FALSE, readNeg |-> FALSE,
         added |-> FALSE, opened |-> <<>>]

SetDom(d) ==
    /\ globalIndex' = d.c.gi
    /\ normalizationCache' = d.c.norm
    /\ lookupCache' = d.c.lookup
    /\ negativeCache' = d.c.neg
    /\ isLoadingIndices' = d.c.loading
    /\ linkClass' = d.links
    /\ embedProcessed' = d.embeds
    /\ renders' = d.rn
    /\ askedFalse' = d.af

\* what a caller does once its `await this.saveSettings()` returns, on the files
\* dk: addNeighborVault goes on to ensureBidirectionalLink(then[1]); the other
\* callers have nothing left that the model follows
EnsureStep(e) ==
    /\ disk' = e.disk
    /\ lastGossip' = e.rec
\* lastOp when addNeighborVault(vaultPath) returned; pushed tells whether it
\* had to add the path
Connected(vaultPath, pushed) ==
    [NoOp EXCEPT !.op = "connect", !.href = <<vaultPath>>, !.added = pushed]
\* lastOp when loadRemoteIndices returned to a caller that has nothing left
Loaded == [NoOp EXCEPT !.op = "loaded"]
AfterSaveSettings(then, dk) ==
    IF then = <<>>
    THEN /\ disk' = dk
         /\ lastGossip' = NoGossip
         /\ lastOp' = Loaded
    ELSE /\ EnsureStep(ensureBidirectionalLink(dk, LocalPath, settings'.neighborVaults,
                                               then[1]))
         /\ lastOp' = Connected(then[1], TRUE)

\* each loadRemoteIndices call in flight is told from the others by a number:
\* the smallest one no call in flight has
FreshId ==
    CHOOSE k \in 1..MaxRuns :
        /\ \A i \in 1..Len(runs) : runs[i].id # k
        /\ \A j \in 1..(k - 1) : \E i \in 1..Len(runs) : runs[i].id = j
InFlight(k) == \E i \in 1..Len(runs) : runs[i].id = k

\* loadRemoteIndices() from its first statement to await Promise.all, called on
\* the files dk with the caller's continuation `then`; when no read is
\* outstanding the rest follows in the same turn
LoadStart(then, dk) ==
    LET reads == StartedReads(settings'.neighborVaults)
        d0 == [Dom EXCEPT !.c = ClearedForLoad(Dom.c)]
    IN IF reads = {}
       THEN /\ SetDom(refreshActiveLeaves([d0 EXCEPT !.c = AfterLoad(d0.c)]))
            /\ hasCompleted' = TRUE
            /\ runs' = runs
            /\ AfterSaveSettings(then, dk)
       ELSE /\ SetDom(d0)
            /\ runs' = Append(runs, [pending |-> reads, then |-> then, id |-> FreshId])
            /\ hasCompleted' = hasCompleted
            /\ disk' = dk
            /\ lastGossip' = NoGossip
            /\ lastOp' = NoOp

\* the handlers that call loadRemoteIndices directly: layout-ready and the
\* refresh command
loadRemoteIndices ==
    /\ Len(runs) < MaxRuns
    /\ UNCHANGED <<settings, siblings, pendingSaves, dom, indexVars>>
    /\ LoadStart(<<>>, disk)

\* one readFile of run i settles: JSON.parse and the merge loop, or the catch;
\* when it was the run's last read, the rest of loadRemoteIndices follows, and
\* then the caller's continuation
ReadComplete(i, r) ==
    /\ i \in 1..Len(runs)
    /\ r \in runs[i].pending
    /\ UNCHANGED <<settings, siblings, pendingSaves, dom, indexVars>>
    /\ LET run1 == [runs[i] EXCEPT !.pending = @ \ {r}]
           d1 == [Dom EXCEPT !.c.gi = MergeRead(globalIndex, r)]
       IN IF run1.pending = {}
          THEN /\ SetDom(refreshActiveLeaves([d1 EXCEPT !.c = AfterLoad(d1.c)]))
               /\ runs' = RemoveAt(runs, i)
               /\ hasCompleted' = TRUE
               /\ AfterSaveSettings(run1.then, disk)
          ELSE /\ SetDom(d1)
               /\ runs' = [runs EXCEPT ![i] = run1]
               /\ hasCompleted' = hasCompleted
               /\ lastOp' = NoOp
               /\ UNCHANGED <<disk, lastGossip>>

-----------------------------------------------------------------------------
(* The DOM handlers as steps *)

\* what one isRemoteMatch(h) call observed and did
AskedRecord(h, r) ==
    [op |-> "isRemoteMatch", href |-> h, ret |-> r.ret, readNeg |-> r.readNeg,
     added |-> (r.c.neg # negativeCache \/ r.c.lookup # lookupCache),
     opened |-> <<>>]
AskedOp(h) == AskedRecord(h, isRemoteMatch(Engine, h))

\* the markdown post-processor or the observer batch reaching the link of href h
ProcessLinkStep(h) ==
    /\ h \in Range(DomLinks)
    /\ SetDom(processLink(Dom, h))
    /\ lastOp' = IF h \in linkClass THEN NoOp ELSE AskedOp(h)
    /\ UNCHANGED <<settingsVars, indexVars, runs, dom, hasCompleted>>

\* lastOp when processEmbed returned at its first line, the element being marked
MarkedEmbed(src) == [NoOp EXCEPT !.op = "marked", !.href = src]
\* lastOp when processEmbed returned at its negativeCache check
SkippedEmbed(src) == [NoOp EXCEPT !.op = "processEmbed", !.href = src, !.readNeg = TRUE]

\* the markdown post-processor or the observer batch reaching the embed of src
ProcessEmbedStep(src) ==
    /\ src \in Range(DomEmbeds)
    /\ SetDom(processEmbed(Dom, src))
    /\ lastOp' = IF src \in embedProcessed THEN MarkedEmbed(src)
                 ELSE IF src \in negativeCache THEN SkippedEmbed(src)
                 ELSE IF isFileResolvedLocally(src) THEN NoOp
                 ELSE AskedOp(src)
    /\ UNCHANGED <<settingsVars, indexVars, runs, dom, hasCompleted>>

\* handleCrossVaultLink / handleUnresolvedLink (the two have the same body)
Handled(evtType, tooSoon, l) ==
    [c |-> l.c,
     ret |-> Len(l.ret) > 0,
     opened |-> IF Len(l.ret) > 0 /\ evtType = "click" /\ ~tooSoon
                THEN <<l.ret[1]>> ELSE <<>>]
handleLink(c, href, evtType, tooSoon) ==
    Handled(evtType, tooSoon, lookupInGlobalIndex(c, href))

ClickHandled(h, r) ==
    /\ normalizationCache' = r.c.norm
    /\ lookupCache' = r.c.lookup
    /\ lastOp' = [NoOp EXCEPT !.op = "click", !.href = h, !.ret = r.ret,
                              !.opened = r.opened]

\* handleEvent of registerDomEvents for a left-button event on the link of href h;
\* tooSoon: less than 500 ms since the last open
Click(h, evtType, tooSoon) ==
    /\ h \in Range(DomLinks)
    /\ evtType \in {"click", "mousedown", "mouseup"}
    /\ tooSoon \in BOOLEAN
    /\ tooSoon => evtType = "click"
    /\ IF h \in linkClass \/ ~isLinkResolvedLocally(h)
       THEN ClickHandled(h, handleLink(Engine, h, evtType, tooSoon))
       ELSE /\ UNCHANGED <<normalizationCache, lookupCache>>
            /\ lastOp' = NoOp
    /\ UNCHANGED <<settingsVars, indexVars, globalIndex, negativeCache, isLoadingIndices, runs,
                   dom, linkClass, embedProcessed, renders, hasCompleted, askedFalse>>

\* the host renders a document again: the elements are new ones, without the
\* classes the plugin added
Rerender ==
    /\ linkClass # {} \/ embedProcessed # {}
    /\ linkClass' = {}
    /\ embedProcessed' = {}
    /\ renders' = EmptyMap
    /\ lastOp' = NoOp
    /\ UNCHANGED <<settingsVars, indexVars, globalIndex, negativeCache, normalizationCache,
                   lookupCache, isLoadingIndices, runs, dom, hasCompleted, askedFalse>>

-----------------------------------------------------------------------------
(* The other stores' published indices *)

InfoN(v) == FileInfo(<<v, "/", "n">>, 1)
InfoZ(v) == FileInfo(<<v, "/", "z">>, 2)
IndexOfN(v)  == JsonIndex([f \in {NameN} |-> InfoN(v)])
IndexOfNZ(v) == JsonIndex([f \in {NameN, NameZ} |-> IF f = NameN THEN InfoN(v) ELSE InfoZ(v)])

-----------------------------------------------------------------------------
(* The settings tab, saveSettings and the gossip between stores *)

\* the plugin directory the running store was loaded from, where saveData writes
OwnDir == PLUGIN_ID

\* the entries a parent folder may have: the stores; T, a folder without
\* .obsidian; F, a file; M, a folder in which .obsidian is a file; D, a folder
\* that may not be read
Entries == Stores \cup {"T", "F", "M", "D"}
isDirectory(name) == name # "F"
Marker(dirPath) ==
    IF dirPath \in Stores THEN "dir"
    ELSE IF dirPath = "M" THEN "file"
    ELSE IF dirPath = "D" THEN "denied"
    ELSE "none"

\* a parent folder: state is "ok", "missing" or "denied" (readdirSync throws)
Parent(state, entries) == [state |-> state, entries |-> entries]
NoParent == Parent("ok", <<>>)

\* isVault(dirPath): existsSync(.obsidian) && statSync(.obsidian).isDirectory();
\* existsSync is false for what may not be read; variant B stops at existsSync
isVaultByName(dirPath) == Marker(dirPath) \in {"dir", "file"}
isVault(dirPath) == Marker(dirPath) \in {"dir", "file"} /\ Marker(dirPath) = "dir"

\* scanForVaults(parentPath): what the caller gets, and whether a Notice was
\* shown on the way; the loop over the dirents in readdir order
RECURSIVE ScanLoop(_, _)
ScanLoop(subdirs, vaultPaths) ==
    IF subdirs = <<>> THEN vaultPaths
    ELSE ScanLoop(Tail(subdirs),
                  IF isDirectory(Head(subdirs)) /\ isVault(Head(subdirs))
                  THEN Append(vaultPaths, Head(subdirs)) ELSE vaultPaths)
Scanned(vaults, threw, notice) == [vaults |-> vaults, threw |-> threw, notice |-> notice]
scanForVaults(parent) ==
    IF parent.state = "missing" THEN Scanned(<<>>, FALSE, FALSE)
    ELSE IF parent.state = "denied" THEN Scanned(<<>>, FALSE, TRUE)
    ELSE Scanned(ScanLoop(parent.entries, <<>>), FALSE, FALSE)

\* the merge loop of the Scan for Vaults button: st is [settings, changed];
\* variant B does not look at the local store's own path
ScanOneAny(st, v) ==
    IF /\ ~Contains(st.settings.neighborVaults, v)
       /\ ~Contains(st.settings.discoveredVaults, v)
    THEN [settings |-> [st.settings EXCEPT !.discoveredVaults = Append(@, v)],
          changed |-> TRUE]
    ELSE st
ScanOne(st, v) ==
    IF /\ ~Contains(st.settings.neighborVaults, v)
       /\ ~Contains(st.settings.discoveredVaults, v)
       /\ v # LocalPath
    THEN [settings |-> [st.settings EXCEPT !.discoveredVaults = Append(@, v)],
          changed |-> TRUE]
    ELSE st
RECURSIVE ScanMerge(_, _)
ScanMerge(st, vaults) ==
    IF vaults = <<>> THEN st ELSE ScanMerge(ScanOne(st, Head(vaults)), Tail(vaults))

\* saveSettings() up to its await: saveData has the settings as they are now;
\* `then` is what the caller does after saveSettings returns; variant B hands
\* saveData the settings as they were when the handler began
saveSettingsStale(then) ==
    /\ Len(pendingSaves) < MaxSaves
    /\ pendingSaves' = Append(pendingSaves, [data |-> DataOf(settings), then |-> then])
saveSettings(then) ==
    /\ Len(pendingSaves) < MaxSaves
    /\ pendingSaves' = Append(pendingSaves, [data |-> DataOf(settings'), then |-> then])

EngineIdle ==
    UNCHANGED <<globalIndex, negativeCache, normalizationCache, lookupCache,
                isLoadingIndices, runs, dom, linkClass, embedProcessed, renders, hasCompleted,
                askedFalse, indexVars>>

\* the Scan for Vaults button; lastOp keeps what scanForVaults returned
ScanDone(r) == [NoOp EXCEPT !.op = "scan", !.opened = r.vaults, !.ret = r.threw]
ScanMerged(r, m) ==
    /\ settings' = m.settings
    /\ IF m.changed THEN saveSettings(<<>>) ELSE UNCHANGED pendingSaves
    /\ lastOp' = ScanDone(r)
    /\ lastGossip' = NoGossip
    /\ UNCHANGED <<disk, siblings>>
    /\ EngineIdle
ScanReturned(r) ==
    ScanMerged(r, ScanMerge([settings |-> settings, changed |-> FALSE], r.vaults))
ScanForVaults == ScanReturned(scanForVaults(siblings))

\* the Browse & Add button with the chosen folder pathStr: addNeighborVault
BrowseAdd(pathStr) ==
    /\ isVault(pathStr)
    /\ IF ~Contains(settings.neighborVaults, pathStr)
       THEN /\ settings' = [settings EXCEPT !.neighborVaults = Append(@, pathStr)]
            /\ saveSettings(<<pathStr>>)
            /\ UNCHANGED disk
            /\ lastGossip' = NoGossip
            /\ lastOp' = NoOp
       ELSE /\ UNCHANGED <<settings, pendingSaves>>
            /\ EnsureStep(ensureBidirectionalLink(disk, LocalPath,
                                                  settings.neighborVaults, pathStr))
            /\ lastOp' = Connected(pathStr, FALSE)
    /\ UNCHANGED siblings
    /\ EngineIdle

\* the rows of the vault list: every path of either list
Rows == Range(settings.neighborVaults) \cup Range(settings.discoveredVaults)

\* the toggle of row vaultPath switched on
ToggleEnable(vaultPath) ==
    /\ vaultPath \in Rows
    /\ ~Contains(settings.neighborVaults, vaultPath)
    /\ settings' = [settings EXCEPT
                       !.neighborVaults = Append(@, vaultPath),
                       !.discoveredVaults = Without(@, vaultPath)]
    /\ EnsureStep(ensureBidirectionalLink(disk, LocalPath,
                      Append(settings.neighborVaults, vaultPath), vaultPath))
    /\ saveSettings(<<>>)
    /\ lastOp' = NoOp
    /\ UNCHANGED siblings
    /\ EngineIdle

\* the toggle of row vaultPath switched off
ToggleDisable(vaultPath) ==
    /\ Contains(settings.neighborVaults, vaultPath)
    /\ settings' = [settings EXCEPT
                       !.neighborVaults = Without(@, vaultPath),
                       !.discoveredVaults = IF Contains(@, vaultPath) THEN @
                                            ELSE Append(@, vaultPath)]
    /\ saveSettings(<<>>)
    /\ lastOp' = NoOp
    /\ lastGossip' = NoGossip
    /\ UNCHANGED <<disk, siblings>>
    /\ EngineIdle

\* the Forget this vault button of row vaultPath
Forget(vaultPath) ==
    /\ vaultPath \in Rows
    /\ settings' = [settings EXCEPT
                       !.neighborVaults = Without(@, vaultPath),
                       !.discoveredVaults = Without(@, vaultPath)]
    /\ saveSettings(<<>>)
    /\ lastOp' = NoOp
    /\ lastGossip' = NoGossip
    /\ UNCHANGED <<disk, siblings>>
    /\ EngineIdle

\* the write of the oldest saveData lands; saveSettings goes on with applyStyles
\* and loadRemoteIndices, and the caller with what it does after saveSettings
SaveLands ==
    /\ pendingSaves # <<>>
    /\ Len(runs) < MaxRuns
    /\ pendingSaves' = Tail(pendingSaves)
    /\ UNCHANGED <<settings, siblings, dom, indexVars>>
    /\ LoadStart(Head(pendingSaves).then,
                 [disk EXCEPT ![LocalPath] = WriteData(@, OwnDir, Head(pendingSaves).data)])

\* loadSettings(): Object.assign({}, DEFAULT_SETTINGS, await this.loadData())
DEFAULT_SETTINGS == SettingsOf(<<>>, <<>>, "c0")
loadSettings(data) ==
    IF data.kind # "json" THEN DEFAULT_SETTINGS
    ELSE SettingsOf(IF data.hasNv THEN data.nv ELSE DEFAULT_SETTINGS.neighborVaults,
                    IF data.hasDv THEN data.dv ELSE DEFAULT_SETTINGS.discoveredVaults,
                    data.other)

\* the plugin is loaded again (onload up to loadSettings) once nothing of the
\* previous instance is outstanding: a new instance with the settings on disk
Restart ==
    /\ pendingSaves = <<>>
    /\ runs = <<>>
    /\ settings' = loadSettings(DataIn(disk[LocalPath], OwnDir))
    /\ globalIndex' = EmptyMap
    /\ negativeCache' = {}
    /\ normalizationCache' = EmptyMap
    /\ lookupCache' = EmptyMap
    /\ isLoadingIndices' = FALSE
    /\ linkClass' = {}
    /\ embedProcessed' = {}
    /\ renders' = EmptyMap
    /\ lastOp' = NoOp
    /\ lastGossip' = NoGossip
    /\ UNCHANGED <<disk, siblings, pendingSaves, runs, dom, hasCompleted, askedFalse,
                   indexVars>>

\* another store's plugin, whose settings.neighborVaults is neighbors, runs its
\* ensureBidirectionalLink on the local store
PeerNeighbors(peer) ==
    {<<LocalPath>>} \cup
    UNION {{<<LocalPath, o>>, <<o, LocalPath>>} : o \in Peers \ {peer}}
PeerGossip(peer, neighbors) ==
    /\ peer \in Peers
    /\ neighbors \in PeerNeighbors(peer)
    /\ EnsureStep(ensureBidirectionalLink(disk, peer, neighbors, LocalPath))
    /\ lastOp' = NoOp
    /\ UNCHANGED <<settings, siblings, pendingSaves>>
    /\ EngineIdle

-----------------------------------------------------------------------------
(* The resolution engine on its own: two neighbors, the settings left alone *)

\* a store without documents of its own
InitAside ==
    /\ peerOps = [x \in Peers |-> PeerIdle]
    /\ writes = <<>>
    /\ observer = ObserverIdle

InitNoDocs ==
    /\ docs = <<>>
    /\ timer = "idle"
    /\ built = NoIndex
    /\ InitAside

InitEngine ==
    /\ globalIndex = EmptyMap
    /\ negativeCache = {}
    /\ normalizationCache = EmptyMap
    /\ lookupCache = EmptyMap
    /\ isLoadingIndices = FALSE
    /\ runs = <<>>
    /\ linkClass = {}
    /\ embedProcessed = {}
    /\ renders = EmptyMap
    /\ hasCompleted = FALSE
    /\ askedFalse = {}
    /\ lastOp = NoOp
    /\ lastGossip = NoGossip

Init ==
    /\ settings = SettingsOf(<<"P", "Q">>, <<>>, "c1")
    /\ disk = [s \in Stores |->
                 IF s = LocalPath
                 THEN <<PluginDir(OwnDir, "match", DataOf(settings), NoIndex)>>
                 ELSE IF s = "P"
                 THEN <<PluginDir(PLUGIN_ID, "match", NoData, IndexOfN("P"))>>
                 ELSE <<PluginDir(LegacyDir, "none", NoData, IndexOfNZ("Q"))>>]
    /\ siblings = NoParent
    /\ pendingSaves = <<>>
    /\ dom = [links |-> <<HrefAnchor, HrefZ>>, embeds |-> <<>>]
    /\ InitEngine
    /\ InitNoDocs

Next ==
    \/ loadRemoteIndices
    \/ \E i \in 1..MaxRuns : \E r \in UNION {runs[j].pending : j \in 1..Len(runs)} :
          ReadComplete(i, r)
    \/ \E h \in Range(DomLinks) : ProcessLinkStep(h)
    \/ \E h \in Range(DomLinks), e \in {"click", "mousedown"}, t \in BOOLEAN : Click(h, e, t)
    \/ Rerender

Spec == Init /\ [][Next]_vars

\* the neighbors of Init switched off or forgotten in the settings tab while
\* reloads are in flight
NextForget ==
    \/ loadRemoteIndices
    \/ \E i \in 1..MaxRuns : \E r \in UNION {runs[j].pending : j \in 1..Len(runs)} :
          ReadComplete(i, r)
    \/ \E v \in Peers : ToggleDisable(v)
    \/ \E v \in Peers : Forget(v)
    \/ SaveLands

SpecForget == Init /\ [][NextForget]_vars

\* a page with a link and an embed: of a note no neighbor publishes, or of a
\* note both publish
HrefQ == <<"q">>
InitEmbedOf(embeds) ==
    /\ settings = SettingsOf(<<"P", "Q">>, <<>>, "c1")
    /\ disk = [s \in Stores |->
                 IF s = LocalPath
                 THEN <<PluginDir(OwnDir, "match", DataOf(settings), NoIndex)>>
                 ELSE IF s = "P"
                 THEN <<PluginDir(PLUGIN_ID, "match", NoData, IndexOfN("P"))>>
                 ELSE <<PluginDir(LegacyDir, "none", NoData, IndexOfNZ("Q"))>>]
    /\ siblings = NoParent
    /\ pendingSaves = <<>>
    /\ dom = [links |-> <<HrefZ>>, embeds |-> embeds]
    /\ InitEngine
    /\ InitNoDocs
InitEmbed == InitEmbedOf(<<HrefQ>>)
InitOnce == InitEmbedOf(<<NameN>>)

NextEmbed ==
    \/ Next
    \/ \E src \in Range(DomEmbeds) : ProcessEmbedStep(src)

SpecEmbed == InitEmbed /\ [][NextEmbed]_vars
SpecOnce == InitOnce /\ [][NextEmbed]_vars

-----------------------------------------------------------------------------
(* initDomObserver: DOM changes batched into animation frames *)

\* the requestAnimationFrame callbacks the model lets be outstanding
MaxFrames == 2

\* the elements the observer is told of: the page's link and its embed
Element(kind, href) == [kind |-> kind, href |-> href]
Elements == {Element("link", HrefZ), Element("embed", NameN)}
Batches == {<<>>} \cup {<<el>> : el \in Elements}
                  \cup {ab \in Elements \X Elements : ab[1] # ab[2]}

\* pendingElements.add(el) for each el of els
RECURSIVE AddAll(_, _)
AddAll(pending, els) ==
    IF els = <<>> THEN pending
    ELSE AddAll(IF Head(els) \in Range(pending) THEN pending
                ELSE Append(pending, Head(els)), Tail(els))
Added(o, els) == [o EXCEPT !.pending = AddAll(@, els), !.due = @ \cup Range(els)]

\* scheduleProcessing(); variant B asks for a frame whenever elements are pending
scheduleProcessingAlways(o) ==
    IF Len(o.pending) > 0
    THEN [o EXCEPT !.rafScheduled = TRUE, !.frames = @ + 1]
    ELSE o
scheduleProcessing(o) ==
    IF ~o.rafScheduled /\ Len(o.pending) > 0
    THEN [o EXCEPT !.rafScheduled = TRUE, !.frames = @ + 1]
    ELSE o

\* processBatch: the closure after it, and what it does to the elements
processBatch(o) ==
    [o EXCEPT !.rafScheduled = FALSE, !.pending = <<>>, !.frames = @ - 1,
              !.due = @ \ Range(o.pending)]
ProcessElement(d, el) ==
    IF el.kind = "link" THEN processLink(d, el.href) ELSE processEmbed(d, el.href)
RECURSIVE ProcessElements(_, _)
ProcessElements(d, els) ==
    IF els = <<>> THEN d ELSE ProcessElements(ProcessElement(d, Head(els)), Tail(els))

\* the MutationObserver callback over mutations that add the elements els
ObserverCallback(els) ==
    /\ observer.frames < MaxFrames
    /\ observer' = scheduleProcessing(Added(observer, els))
    /\ lastOp' = [NoOp EXCEPT !.op = "observed", !.opened = els]
    /\ UNCHANGED <<settingsVars, docs, timer, built, peerOps, writes, engineVars>>

\* an animation frame runs processBatch; lastOp keeps the elements it
\* processed, and in `ret` whether each was added since the run before
ProcessBatch ==
    /\ observer.frames > 0
    /\ observer' = processBatch(observer)
    /\ SetDom(ProcessElements(Dom, observer.pending))
    /\ lastOp' = [NoOp EXCEPT !.op = "batch", !.opened = observer.pending,
                              !.ret = (Range(observer.pending) \subseteq observer.due)]
    /\ UNCHANGED <<settingsVars, docs, timer, built, peerOps, writes, runs, dom,
                   hasCompleted>>

\* the frame of ProcessBatch as the closure sees it; the host runs every
\* animation frame callback it was asked for
FrameRuns == observer.frames > 0 /\ observer' = processBatch(observer)

NextObserver ==
    \/ \E els \in Batches : ObserverCallback(els)
    \/ ProcessBatch
    \/ Rerender
    \/ loadRemoteIndices /\ runs = <<>>
    \/ \E i \in 1..MaxRuns : \E r \in UNION {runs[j].pending : j \in 1..Len(runs)} :
          ReadComplete(i, r)

SpecObserver == InitOnce /\ [][NextObserver]_vars /\ WF_observer(FrameRuns)

-----------------------------------------------------------------------------
(* Reloads over neighbors whose index.json may fail to load *)

\* what the index.json of a neighbor may be when it is read
IndexMenu(v) ==
    {IndexOfNZ(v), NoIndex, BadIndex, DeniedIndex,
     PartialIndex([f \in {NameN} |-> InfoN(v)])}

InitLoad ==
    /\ settings = SettingsOf(<<"P", "Q">>, <<>>, "c1")
    /\ \E ip \in IndexMenu("P"), iq \in {IndexOfNZ("Q"), IndexOfN("Q"), BadIndex} :
          disk = [s \in Stores |->
                    IF s = LocalPath
                    THEN <<PluginDir(OwnDir, "match", DataOf(settings), NoIndex)>>
                    ELSE IF s = "P"
                    THEN <<PluginDir(PLUGIN_ID, "match", NoData, ip)>>
                    ELSE <<PluginDir(LegacyDir, "none", NoData, iq)>>]
    /\ siblings = NoParent
    /\ pendingSaves = <<>>
    /\ dom = [links |-> <<HrefZ>>, embeds |-> <<>>]
    /\ InitEngine
    /\ InitNoDocs

SpecLoad == InitLoad /\ [][Next]_vars

\* every readFile settles, with the content or with an error: a call in flight
\* does not wait forever for its next read. ReadOf(k) is what a ReadComplete
\* step of call k does to runs
ReadOf(k) ==
    \E i \in 1..Len(runs) : \E r \in runs[i].pending :
        /\ runs[i].id = k
        /\ runs' = IF runs[i].pending = {r} THEN RemoveAt(runs, i)
                   ELSE [runs EXCEPT ![i].pending = @ \ {r}]
SpecLive ==
    InitLoad /\ [][Next]_vars /\ \A k \in 1..MaxRuns : WF_runs(ReadOf(k))

\* neighbors with an index.json at the current location, at the legacy
\* location, at both or at neither
IndexOld(v) == JsonIndex([f \in {NameN} |-> FileInfo(<<v, "/", "o">>, 3)])
WhereMenu(v) ==
    { <<PluginDir(PLUGIN_ID, "match", NoData, IndexOfNZ(v))>>,
      <<PluginDir(PLUGIN_ID, "match", NoData, IndexOfNZ(v)),
        PluginDir(LegacyDir, "none", NoData, IndexOld(v))>>,
      <<PluginDir(PLUGIN_ID, "match", NoData, BadIndex),
        PluginDir(LegacyDir, "none", NoData, IndexOld(v))>>,
      <<PluginDir(LegacyDir, "none", NoData, IndexOld(v))>>,
      <<PluginDir(PLUGIN_ID, "match", NoData, NoIndex)>> }

InitWhere ==
    /\ settings = SettingsOf(<<"P", "Q">>, <<>>, "c1")
    /\ \E lp \in WhereMenu("P"), lq \in WhereMenu("Q") :
          disk = [s \in Stores |->
                    IF s = LocalPath
                    THEN <<PluginDir(OwnDir, "match", DataOf(settings), NoIndex)>>
                    ELSE IF s = "P" THEN lp ELSE lq]
    /\ siblings = NoParent
    /\ pendingSaves = <<>>
    /\ dom = [links |-> <<HrefZ>>, embeds |-> <<>>]
    /\ InitEngine
    /\ InitNoDocs

SpecWhere == InitWhere /\ [][Next]_vars

\* the behaviours in which no loadRemoteIndices call starts while another is
\* in flight
NextSolo == Next /\ Len(runs') <= 1
SpecSolo == InitWhere /\ [][NextSolo]_vars

-----------------------------------------------------------------------------
(* The settings and the gossip on their own: no store publishes an index *)

\* what the plugins folder of another store may look like: no plugin; the
\* plugin with empty lists; the plugin knowing the local store already; the
\* plugin in the legacy folder beside another plugin, its data.json without
\* the two lists; a data.json that does not parse; the plugin in a folder of
\* its own without data.json beside a vault-linker folder that has one
LayoutNone == <<>>
LayoutFresh ==
    <<PluginDir(PLUGIN_ID, "match", JsonData(TRUE, <<>>, TRUE, <<>>, "p1"), NoIndex)>>
LayoutKnowing(v) ==
    <<PluginDir(PLUGIN_ID, "match",
                JsonData(TRUE, <<CHOOSE o \in Peers : o # v>>, TRUE, <<LocalPath>>, "p2"),
                NoIndex)>>
LayoutLegacy ==
    <<PluginDir("aaa", "other", JsonData(TRUE, <<>>, TRUE, <<>>, "x"), NoIndex),
      PluginDir(LegacyDir, "none", JsonData(FALSE, <<>>, FALSE, <<>>, "p3"), NoIndex)>>
LayoutBadData == <<PluginDir("custom", "match", BadData, NoIndex)>>
LayoutNoData ==
    <<PluginDir("custom", "match", NoData, NoIndex),
      PluginDir(PLUGIN_ID, "bad", JsonData(TRUE, <<>>, TRUE, <<>>, "p4"), NoIndex)>>

InitGossip ==
    /\ settings = SettingsOf(<<>>, <<>>, "c1")
    /\ \E lp \in {LayoutNone, LayoutFresh, LayoutKnowing("P"), LayoutLegacy,
                    LayoutBadData, LayoutNoData},
          lq \in {LayoutFresh, LayoutLegacy, LayoutNoData} :
          disk = [s \in Stores |->
                    IF s = LocalPath
                    THEN <<PluginDir(OwnDir, "match", DataOf(settings), NoIndex)>>
                    ELSE IF s = "P" THEN lp ELSE lq]
    /\ siblings = Parent("ok", <<"L", "P", "T", "Q">>)
    /\ pendingSaves = <<>>
    /\ dom = [links |-> <<>>, embeds |-> <<>>]
    /\ InitEngine
    /\ InitNoDocs

NextGossip ==
    \/ ScanForVaults
    \/ \E v \in Peers : BrowseAdd(v)
    \/ \E v \in Peers : ToggleEnable(v)
    \/ \E v \in Peers : ToggleDisable(v)
    \/ \E v \in Peers : Forget(v)
    \/ SaveLands
    \/ Restart
    \/ \E x \in Peers : \E n \in PeerNeighbors(x) : PeerGossip(x, n)

SpecGossip == InitGossip /\ [][NextGossip]_vars

-----------------------------------------------------------------------------
(* The store's own documents, generateLocalIndex and its debouncer *)

\* the paths a local document may have: two folders with a note of the same
\* file name, and a note of another name
DocPaths ==
    {<<"a", "/", "n", ".", "m", "d">>, <<"b", "/", "n", ".", "m", "d">>,
     <<"a", "/", "z", ".", "m", "d">>}
Mtimes == {1, 2}

\* a TFile: name is the last component of path
Doc(path, mtime) == [name |-> basename(path), path |-> path, mtime |-> mtime]

\* generateLocalIndex(): the loop `index.files[file.name] = {path, mtime}` over
\* getMarkdownFiles(); variant B keeps the entry a name already has
IndexOneKeep(index, file) ==
    IF Has(index, file.name) THEN index
    ELSE Put(index, file.name, FileInfo(file.path, file.mtime))
IndexOne(index, file) == Put(index, file.name, FileInfo(file.path, file.mtime))
RECURSIVE IndexLoop(_, _)
IndexLoop(files, index) ==
    IF files = <<>> THEN index ELSE IndexLoop(Tail(files), IndexOne(index, Head(files)))
generateLocalIndex(files) == JsonIndex(IndexLoop(files, EmptyMap))

WriteIndex(dirs, name, index) ==
    [i \in 1..Len(dirs) |-> IF dirs[i].name = name THEN [dirs[i] EXCEPT !.index = index]
                            ELSE dirs[i]]

\* debounce(fn, 5000, true): a call (re)starts the timer, and fn runs when the
\* timer runs out; [timer, run] is the timer after ev and whether fn runs now.
\* Variant B runs fn on the first call of a window and not at its end.
debounceLeading(t, ev) ==
    IF ev = "call" THEN [timer |-> "armed", run |-> (t = "idle")]
    ELSE [timer |-> "idle", run |-> FALSE]
debounce(t, ev) ==
    IF ev = "call" THEN [timer |-> "armed", run |-> FALSE]
    ELSE [timer |-> "idle", run |-> (t = "armed")]

\* fs.promises.writeFile(indexPath, text) opens index.json with flag 'w', which
\* empties it, and then writes: it ends "written", or fails with the file not
\* opened ("refused") or with the file opened and not written out ("cut"); the
\* error is caught and logged. Left is the index.json it leaves where old was.
WriteOutcomes == {"written", "refused", "cut"}
Left(old, index, ok) ==
    IF ok = "written" THEN index
    ELSE IF ok = "refused" THEN old
    ELSE PartialIndex(EmptyMap)

\* one generateLocalIndex() call over files, its writeFile ending as ok
Generate(files, ok) ==
    /\ built' = generateLocalIndex(files)
    /\ disk' = [disk EXCEPT ![LocalPath] =
                   WriteIndex(@, OwnDir,
                              Left(IndexAt(LocalPath, OwnDir), generateLocalIndex(files), ok))]

\* the debouncer after ev, with the documents being files; lastOp tells an
\* event from a rebuild, and in `added` whether an event came while the timer
\* ran, or a rebuild right after such an event, and in `ret` whether the
\* rebuild's writeFile succeeded
Debounced(d, files, ok, op) ==
    /\ timer' = d.timer
    /\ IF d.run THEN Generate(files, ok) ELSE UNCHANGED <<built, disk>>
    /\ lastOp' = IF d.run
                 THEN [NoOp EXCEPT !.op = "generate", !.added = op.added,
                                   !.ret = (ok = "written")]
                 ELSE op

\* what one create, delete or rename makes of the documents
Created == {Append(docs, Doc(p, m)) :
               p \in {q \in DocPaths : \A i \in 1..Len(docs) : docs[i].path # q},
               m \in Mtimes}
Deleted == {RemoveAt(docs, i) : i \in 1..Len(docs)}
Renamed == {[docs EXCEPT ![i] = Doc(p, @.mtime)] :
               i \in 1..Len(docs),
               p \in {q \in DocPaths : \A j \in 1..Len(docs) : docs[j].path # q}}

EngineStill ==
    UNCHANGED <<globalIndex, negativeCache, normalizationCache, lookupCache,
                isLoadingIndices, runs, dom, linkClass, embedProcessed, renders, hasCompleted,
                askedFalse>>

\* vault.on('create' | 'delete' | 'rename', debouncedGen)
VaultEvent(files, ok) ==
    /\ files \in Created \cup Deleted \cup Renamed
    /\ docs' = files
    /\ Debounced(debounce(timer, "call"), files, ok,
                 [NoOp EXCEPT !.op = "event", !.added = (timer = "armed")])
    /\ lastGossip' = NoGossip
    /\ UNCHANGED <<settings, siblings, pendingSaves, asideVars>>
    /\ EngineStill

\* the 5000 ms since the last call have passed
DebounceTimeout(ok) ==
    /\ timer = "armed"
    /\ docs' = docs
    /\ Debounced(debounce(timer, "timeout"), docs, ok,
                 [NoOp EXCEPT !.added = (lastOp.op = "event" /\ lastOp.added)])
    /\ lastGossip' = NoGossip
    /\ UNCHANGED <<settings, siblings, pendingSaves, asideVars>>
    /\ EngineStill

\* generateLocalIndex() called directly: layout-ready and the refresh command
GenerateNow(ok) ==
    /\ Generate(docs, ok)
    /\ lastOp' = [NoOp EXCEPT !.op = "generate", !.ret = (ok = "written")]
    /\ lastGossip' = NoGossip
    /\ UNCHANGED <<settings, siblings, pendingSaves, docs, timer, asideVars>>
    /\ EngineStill

\* the document lists a store may start with: getMarkdownFiles() in any order
DocLists ==
    {<<>>} \cup {<<Doc(p, m)>> : p \in DocPaths, m \in Mtimes}
           \cup {<<Doc(pq[1], 1), Doc(pq[2], 2)>> :
                     pq \in {x \in DocPaths \X DocPaths : x[1] # x[2]}}
           \cup {<<Doc(pqr[1], 2), Doc(pqr[2], 1), Doc(pqr[3], 1)>> :
                     pqr \in {x \in DocPaths \X DocPaths \X DocPaths :
                                 x[1] # x[2] /\ x[1] # x[3] /\ x[2] # x[3]}}

\* the store lists itself as its only neighbor, so that what it publishes is
\* what it loads; index is the index.json it starts with
InitDocs(index) ==
    /\ settings = SettingsOf(<<LocalPath>>, <<>>, "c1")
    /\ docs \in DocLists
    /\ timer = "idle"
    /\ built = index
    /\ InitAside
    /\ disk = [s \in Stores |->
                 IF s = LocalPath
                 THEN <<PluginDir(OwnDir, "match", DataOf(settings), index)>>
                 ELSE LayoutNone]
    /\ siblings = NoParent
    /\ pendingSaves = <<>>
    /\ dom = [links |-> <<>>, embeds |-> <<>>]
    /\ InitEngine

\* publishing and loading back: nothing published yet, the documents at rest
InitIndex == \E index \in {NoIndex} : InitDocs(index)

NextIndex ==
    \/ \E ok \in WriteOutcomes : GenerateNow(ok)
    \/ loadRemoteIndices
    \/ \E i \in 1..MaxRuns : \E r \in UNION {runs[j].pending : j \in 1..Len(runs)} :
          ReadComplete(i, r)

SpecIndex == InitIndex /\ [][NextIndex]_vars

\* the debouncer: layout-ready has published the index of the documents, which
\* then change; a timer that was started runs out
InitDebounce == \E l \in DocLists : docs = l /\ InitDocs(generateLocalIndex(l))

NextDebounce ==
    \/ \E files \in Created \cup Deleted \cup Renamed, ok \in WriteOutcomes : VaultEvent(files, ok)
    \/ \E ok \in WriteOutcomes : DebounceTimeout(ok)

SpecDebounce ==
    InitDebounce /\ [][NextDebounce]_vars
                 /\ WF_vars(\E ok \in WriteOutcomes : DebounceTimeout(ok))

-----------------------------------------------------------------------------
(* generateLocalIndex calls that overlap *)

\* the writeFile calls that may be under way at once
MaxWrites == 2

\* generateLocalIndex() up to its `await fs.promises.writeFile(...)`: the index
\* of the documents as they are now is built and its write is started; built
\* is the index of the call that started last
GenerateBegin ==
    /\ Len(writes) < MaxWrites
    /\ built' = generateLocalIndex(docs)
    /\ writes' = Append(writes, generateLocalIndex(docs))
    /\ lastOp' = [NoOp EXCEPT !.op = "generate"]
    /\ lastGossip' = NoGossip
    /\ UNCHANGED <<settings, disk, siblings, pendingSaves, docs, timer, peerOps, observer>>
    /\ EngineStill

\* the i-th writeFile under way ends, having written its text: the writes are
\* handed to the thread pool, which ends them in any order
WriteEnd(i) ==
    /\ i \in 1..Len(writes)
    /\ disk' = [disk EXCEPT ![LocalPath] = WriteIndex(@, OwnDir, writes[i])]
    /\ writes' = RemoveAt(writes, i)
    /\ lastOp' = [NoOp EXCEPT !.op = "written", !.ret = TRUE]
    /\ lastGossip' = NoGossip
    /\ UNCHANGED <<settings, siblings, pendingSaves, docs, timer, built, peerOps, observer>>
    /\ EngineStill

\* layout-ready and the refresh command start builds, and documents are
\* deleted in between
InitWrites == \E l \in DocLists : docs = l /\ InitDocs(NoIndex)

NextWrites ==
    \/ GenerateBegin
    \/ \E i \in 1..MaxWrites : WriteEnd(i)
    \/ \E files \in Deleted : VaultEvent(files, "written")

SpecWrites == InitWrites /\ [][NextWrites]_vars

-----------------------------------------------------------------------------
(* Other stores as processes of their own *)

\* two other stores, each a process of its own, run ensureBidirectionalLink on
\* this store's data.json
PeerRead(x, neighbors) ==
    /\ peerOps[x].state # "read"
    /\ peerOps' = [peerOps EXCEPT ![x] = PeerReadAt(x, neighbors, LocalPath,
                                                    remotePluginDir(disk[LocalPath]))]
    /\ lastOp' = NoOp
    /\ lastGossip' = NoGossip
    /\ UNCHANGED <<settings, disk, siblings, pendingSaves, docs, timer, built, writes,
                   observer>>
    /\ EngineStill
PeerWrite(x) ==
    /\ peerOps[x].state = "read"
    /\ peerOps' = [peerOps EXCEPT ![x] = PeerDone]
    /\ disk' = PeerWritten(disk, LocalPath, peerOps[x])
    /\ lastOp' = NoOp
    /\ lastGossip' = NoGossip
    /\ UNCHANGED <<settings, siblings, pendingSaves, docs, timer, built, writes, observer>>
    /\ EngineStill

InitRace ==
    /\ settings = SettingsOf(<<>>, <<>>, "c1")
    /\ \E dv \in {<<>>, <<"T">>}, other \in {"c1", "c2"}, lp \in {LayoutNone, LayoutFresh} :
          disk = [s \in Stores |->
                    IF s = LocalPath
                    THEN <<PluginDir(OwnDir, "match", JsonData(TRUE, <<>>, TRUE, dv, other),
                                     NoIndex)>>
                    ELSE lp]
    /\ siblings = NoParent
    /\ pendingSaves = <<>>
    /\ dom = [links |-> <<>>, embeds |-> <<>>]
    /\ InitEngine
    /\ InitNoDocs

NextRace ==
    \/ \E x \in Peers : \E n \in PeerNeighbors(x) : PeerRead(x, n)
    \/ \E x \in Peers : PeerWrite(x)

SpecRace == InitRace /\ [][NextRace]_vars

-----------------------------------------------------------------------------
(* parseLinkHref over any href *)

\* the hrefs parsed: every text of up to MaxHref characters that are a letter,
\* a dot, a separator or the anchor sign
HrefChars == {"a", ".", "/", "\\", "#"}
Hrefs == UNION {[1..n -> HrefChars] : n \in 0..MaxHref}

\* one parseLinkHref(href) call; lastOp keeps [filename, anchor] in `opened`
ParseDone(href, p) ==
    /\ normalizationCache' = p.norm
    /\ lastOp' = [NoOp EXCEPT !.op = "parse", !.href = href,
                              !.opened = <<p.filename, p.anchor>>]
    /\ lastGossip' = NoGossip
    /\ UNCHANGED <<settings, disk, siblings, pendingSaves, indexVars, globalIndex,
                   negativeCache, lookupCache, isLoadingIndices, runs, dom, linkClass,
                   embedProcessed, renders, hasCompleted, askedFalse>>
ParseStep(href) == ParseDone(href, parseLinkHref(normalizationCache, href))

\* the filename a parse returned, parsed as an href
ParseAgain ==
    /\ lastOp.op = "parse"
    /\ ParseStep(lastOp.opened[1])

InitParse ==
    /\ settings = SettingsOf(<<>>, <<>>, "c1")
    /\ disk = [s \in Stores |->
                 IF s = LocalPath
                 THEN <<PluginDir(OwnDir, "match", DataOf(settings), NoIndex)>>
                 ELSE LayoutNone]
    /\ siblings = NoParent
    /\ pendingSaves = <<>>
    /\ \E h \in Hrefs : dom = [links |-> <<h>>, embeds |-> <<>>]
    /\ InitEngine
    /\ InitNoDocs

NextParse ==
    \/ \E h \in Range(DomLinks) : ParseStep(h)
    \/ ParseAgain

SpecParse == InitParse /\ [][NextParse]_vars

-----------------------------------------------------------------------------
(* extractBlockContent *)

NL == "\n"
\* the characters \s matches and trim removes
IsSpace(c) == c \in {" ", NL}

trimEnd(s) == SubSeq(s, 1, Max({i \in 1..Len(s) : ~IsSpace(s[i])} \cup {0}))
trimStart(s) == SubSeq(s, Min({i \in 1..Len(s) : ~IsSpace(s[i])} \cup {Len(s) + 1}), Len(s))
trim(s) == trimStart(trimEnd(s))
endsWith(s, t) == Len(t) <= Len(s) /\ SubSeq(s, Len(s) - Len(t) + 1, Len(s)) = t
startsWith(s, t) == Len(t) <= Len(s) /\ SubSeq(s, 1, Len(t)) = t

\* the 'i' flag of headingRegex: letters compare without case
toLower(s) == [i \in 1..Len(s) |-> IF s[i] = "A" THEN "a" ELSE s[i]]

\* content.split('\n') and lines.join('\n')
RECURSIVE SplitLines(_)
SplitAt(s, i) == <<SubSeq(s, 1, i - 1)>> \o SplitLines(SubSeq(s, i + 1, Len(s)))
SplitLines(s) == IF Positions(s, NL) = {} THEN <<s>> ELSE SplitAt(s, Min(Positions(s, NL)))
RECURSIVE JoinLines(_)
JoinLines(lines) ==
    IF lines = <<>> THEN <<>>
    ELSE IF Len(lines) = 1 THEN lines[1]
    ELSE lines[1] \o <<NL>> \o JoinLines(Tail(lines))

\* the reference was found nowhere: console.warn and the full content
NotFoundEmpty(content) == <<>>
NotFound(content) == content

\* line.replace(/\s*<blockId>\s*$/, ''): the marker at the end of the line goes,
\* with the whitespace on both sides of it
CleanedOf(t, blockId) == trimEnd(SubSeq(t, 1, Len(t) - Len(blockId)))
cleanedLine(line, blockId) == CleanedOf(trimEnd(line), blockId)

\* the lines the block loop stops at: not empty, ending with blockId
BlockLines(lines, blockId) ==
    {i \in 1..Len(lines) : lines[i] # <<>> /\ endsWith(trimEnd(lines[i]), blockId)}
BlockLineLast(found) == Max(found)
BlockLine(found) == Min(found)
BlockFound(lines, blockId, content, found) ==
    IF found = {} THEN NotFound(content)
    ELSE trim(cleanedLine(lines[BlockLine(found)], blockId))

\* the number of '#' a line starts with
Hashes(line) == Min({i \in 1..Len(line) : line[i] # "#"} \cup {Len(line) + 1}) - 1

\* currentLine.match(headingRegex): ^(#+)\s+<reference>\s*$ with flag i;
\* the result is the length of match[1], 0 for no match
HeadingTail(rest, reference) ==
    /\ Len(rest) >= Len(reference)
    /\ toLower(SubSeq(rest, 1, Len(reference))) = toLower(reference)
    /\ \A j \in (Len(reference) + 1)..Len(rest) : IsSpace(rest[j])
HeadingMatches(line, reference, n) ==
    /\ n >= 1
    /\ \E k \in (n + 1)..Len(line) :
          /\ \A j \in (n + 1)..k : IsSpace(line[j])
          /\ HeadingTail(SubSeq(line, k + 1, Len(line)), reference)
headingMatch(line, reference) ==
    IF HeadingMatches(line, reference, Hashes(line)) THEN Hashes(line) ELSE 0

\* currentLine.match(/^(#+)\s+/): the length of match[1], 0 for no match
HeadingLevelOf(line, n) == IF n >= 1 /\ n < Len(line) /\ IsSpace(line[n + 1]) THEN n ELSE 0
headingLevelOf(line) == HeadingLevelOf(line, Hashes(line))

\* headingLineIndex (0 when no line matches)
headingLineIndex(lines, reference) ==
    Min({i \in 1..Len(lines) : headingMatch(lines[i], reference) > 0} \cup {Len(lines) + 1})
      % (Len(lines) + 1)

\* endLineIndex: the next heading with at most headingLevel markers
endLineIndexAny(lines, h, headingLevel) ==
    Min({i \in (h + 1)..Len(lines) : headingLevelOf(lines[i]) >= 1} \cup {Len(lines) + 1})
endLineIndex(lines, h, headingLevel) ==
    Min({i \in (h + 1)..Len(lines) : headingLevelOf(lines[i]) \in 1..headingLevel}
          \cup {Len(lines) + 1})

HeadingFound(lines, content, h) ==
    IF h = 0 THEN NotFound(content)
    ELSE trim(JoinLines(SubSeq(lines, h,
                 endLineIndex(lines, h, Hashes(lines[h])) - 1)))

ExtractFrom(lines, content, reference) ==
    IF startsWith(reference, <<"^">>)
    THEN BlockFound(lines, reference, content, BlockLines(lines, reference))
    ELSE HeadingFound(lines, content, headingLineIndex(lines, reference))
extractBlockContent(content, reference) ==
    IF reference = <<>> THEN content
    ELSE ExtractFrom(SplitLines(content), content, reference)

\* the lines remote documents are made of
DocLines ==
    { <<"#", " ", "a">>, <<"#", " ", "A", " ">>, <<"#", "#", " ", "b">>,
      <<"#", "a">>, <<"x">>, <<>>,
      <<" ", "x", " ", "^", "a", " ">>, <<"y", "^", "a">>, <<"^", "a", " ", "x">> }
Contents == {JoinLines(ls) : ls \in UNION {[1..n -> DocLines] : n \in 1..MaxLines}}

\* the embeds of the page: the note n, whole or with an anchor
EmbedSrcs ==
    { <<"n">>, <<"n", "#", "a">>, <<"n", "#", "b">>,
      <<"n", "#", "^", "a">>, <<"n", "#", "^", "b">> }

\* renderRemoteEmbed of a container not processed before, from readFile on:
\* content is what was read (it has no frontmatter to strip); lastOp keeps
\* [content, extracted] in `opened`
Extracted(content, reference) ==
    IF reference # <<>> THEN extractBlockContent(content, reference) ELSE content
ExtractDone(src, content, p) ==
    /\ src \notin embedProcessed
    /\ embedProcessed' = embedProcessed \cup {src}
    /\ renders' = Rendered(renders, src)
    /\ normalizationCache' = p.norm
    /\ lastOp' = [NoOp EXCEPT !.op = "extract", !.href = p.anchor,
                              !.opened = <<content, Extracted(content, p.anchor)>>]
    /\ lastGossip' = NoGossip
    /\ UNCHANGED <<settings, disk, siblings, pendingSaves, indexVars, globalIndex,
                   negativeCache, lookupCache, isLoadingIndices, runs, dom, linkClass,
                   hasCompleted, askedFalse>>
ExtractStep(src, content) ==
    ExtractDone(src, content, parseLinkHref(normalizationCache, src))

InitExtract ==
    /\ settings = SettingsOf(<<>>, <<>>, "c1")
    /\ disk = [s \in Stores |->
                 IF s = LocalPath
                 THEN <<PluginDir(OwnDir, "match", DataOf(settings), NoIndex)>>
                 ELSE LayoutNone]
    /\ siblings = NoParent
    /\ pendingSaves = <<>>
    /\ \E src \in EmbedSrcs : dom = [links |-> <<>>, embeds |-> <<src>>]
    /\ InitEngine
    /\ InitNoDocs

NextExtract == \E src \in Range(DomEmbeds), content \in Contents : ExtractStep(src, content)

SpecExtract == InitExtract /\ [][NextExtract]_vars

-----------------------------------------------------------------------------
(* Reloads and lookups: C1 - C5 *)

\* the maps one loadRemoteIndices run builds when it runs alone: its reads may
\* settle in any order
RECURSIVE MergeAll(_, _)
MergeAll(gi, pending) ==
    IF pending = {} THEN {gi}
    ELSE UNION {MergeAll(MergeRead(gi, r), pending \ {r}) : r \in pending}
RunAloneResults == MergeAll(EmptyMap, StartedReads(settings.neighborVaults))

\* the neighbors whose index.json loads and lists the document f
Publishers(f) ==
    {i \in 1..Len(settings.neighborVaults) :
        /\ IndexDirOf(settings.neighborVaults[i]) # <<>>
        /\ IndexAt(settings.neighborVaults[i],
                   IndexDirOf(settings.neighborVaults[i])[1]).kind = "json"
        /\ f \in DOMAIN IndexAt(settings.neighborVaults[i],
                                IndexDirOf(settings.neighborVaults[i])[1]).files}

\* C1: the globalIndex a reader observes is empty or is exactly the merge
\* result of one completed loadRemoteIndices run, never the contributions of
\* only some neighbors of a run in flight.  The reader here is the click
\* handler (handleCrossVaultLink / handleUnresolvedLink through
\* lookupInGlobalIndex), which leaves the map as it read it.
C1_ReaderSeesWholeRun ==
    lastOp.op = "click" => (globalIndex = EmptyMap \/ globalIndex \in RunAloneResults)

\* C2: once overlapping loadRemoteIndices runs have all completed, globalIndex
\* equals the result of exactly one of them run alone.
C2_OverlapEndsAsOneRun ==
    (runs = <<>> /\ hasCompleted) => globalIndex \in RunAloneResults

\* C3: while at least one loadRemoteIndices run has started and not completed,
\* isRemoteMatch(h) returns false without reading negativeCache and without
\* adding h to negativeCache or lookupCache.
C3_UnknownWhileLoading ==
    (lastOp.op = "isRemoteMatch" /\ runs # <<>>) =>
        (~lastOp.ret /\ ~lastOp.readNeg /\ ~lastOp.added)

\* C4: for every href that isRemoteMatch answered false for, once a reload has
\* completed and none is in flight, if a loaded neighbor publishes its
\* normalized filename then the next isRemoteMatch(h) returns true.
C4_ResolvableAfterReload ==
    (runs = <<>> /\ hasCompleted) =>
        \A h \in askedFalse :
            Publishers(NormalizeFresh(ParseBaseName(h))) # {} =>
                isRemoteMatch(Engine, h).ret

\* a later isRemoteMatch(h), with no reload in flight, answering true for an
\* href that was answered false before
C4_Witness ==
    /\ runs = <<>> /\ hasCompleted
    /\ lastOp.op = "isRemoteMatch" /\ lastOp.ret
    /\ lastOp.href \in askedFalse

\* C5: when several neighbors publish the same document name, the first entry
\* of its globalIndex list is the entry of the neighbor that comes first in
\* neighborVaults, whatever order the reads of a reload settle in.
C5_FirstNeighborFirst ==
    (runs = <<>> /\ hasCompleted) =>
        \A f \in DOMAIN globalIndex :
            Publishers(f) # {} =>
                globalIndex[f][1].vaultPath = settings.neighborVaults[Min(Publishers(f))]

-----------------------------------------------------------------------------
(* Settings and gossip: C6 - C10 *)

\* the remote data.json as the last ensureBidirectionalLink call left it
GossipAfter == DataIn(disk[lastGossip.remote], lastGossip.dir[1])

\* C6: no path is in both neighborVaults and discoveredVaults of the settings,
\* after any sequence of scan-merge, Browse & Add, toggle on, toggle off,
\* forget and incoming gossip writes, starting from disjoint lists.
C6_ListsDisjoint ==
    \A v \in Stores :
        ~(Contains(settings.neighborVaults, v) /\ Contains(settings.discoveredVaults, v))

\* C7: if store A has neighborVaults {B, C} and B's data.json exists and has
\* neither A nor C in its neighborVaults or discoveredVaults, then after A's
\* ensureBidirectionalLink(B) B's persisted discoveredVaults contains A's path
\* and C's path and not B's own path, and B's neighborVaults is the same list
\* as before.
C7_GossipAddsSelfAndOthers ==
    \A c \in Stores :
        (/\ lastGossip.op = "ensure"
         /\ c \notin {lastGossip.self, lastGossip.remote}
         /\ Range(lastGossip.neighbors) = {lastGossip.remote, c}
         /\ lastGossip.dir # <<>>
         /\ lastGossip.before.kind = "json"
         /\ ~Known(lastGossip.before, lastGossip.self)
         /\ ~Known(lastGossip.before, c))
        => /\ GossipAfter.kind = "json"
           /\ Contains(GossipAfter.dv, lastGossip.self)
           /\ Contains(GossipAfter.dv, c)
           /\ ~Contains(GossipAfter.dv, lastGossip.remote)
           /\ GossipAfter.nv = lastGossip.before.nv

\* a store with two neighbors has just gossiped to one of them, which knew
\* neither the store nor the other neighbor
C7_Witness ==
    /\ lastGossip.op = "ensure" /\ lastGossip.wrote
    /\ Len(lastGossip.neighbors) = 2
    /\ Contains(lastGossip.neighbors, lastGossip.remote)
    /\ ~Known(lastGossip.before, lastGossip.self)
    /\ \A c \in Range(lastGossip.neighbors) \ {lastGossip.remote} :
          ~Known(lastGossip.before, c) /\ Contains(GossipAfter.dv, c)

\* C8 as stated: ensureBidirectionalLink changes nothing in the remote data.json
\* except discoveredVaults: every other field keeps its value and no field that
\* was absent, neighborVaults included, is added.
C8_OnlyDiscoveredChanges ==
    (lastGossip.op = "ensure" /\ lastGossip.dir # <<>>) =>
        [GossipAfter EXCEPT !.hasDv = lastGossip.before.hasDv,
                            !.dv = lastGossip.before.dv] = lastGossip.before

\* C8 amended: ensureBidirectionalLink changes nothing in the remote data.json
\* except discoveredVaults and, when it writes, a missing neighborVaults, which
\* becomes the empty list; every other field keeps its value, no other field is
\* added, and without a write the file is as it was.
C8_OnlyListsChange ==
    (lastGossip.op = "ensure" /\ lastGossip.dir # <<>>) =>
        IF lastGossip.wrote
        THEN /\ GossipAfter.hasNv
             /\ [GossipAfter EXCEPT !.hasDv = lastGossip.before.hasDv,
                                    !.dv = lastGossip.before.dv,
                                    !.hasNv = lastGossip.before.hasNv]
                  = lastGossip.before
        ELSE GossipAfter = lastGossip.before

\* a write into a data.json that had no neighborVaults
C8_Witness ==
    /\ lastGossip.op = "ensure" /\ lastGossip.wrote
    /\ ~lastGossip.before.hasNv
    /\ GossipAfter.other = lastGossip.before.other

\* C9: when the remote store has no locatable data.json or the file is not
\* valid JSON, ensureBidirectionalLink creates no file and leaves every file of
\* the remote store as it was.
C9_NoConfigNoWrite ==
    [][(lastGossip'.op = "ensure" /\ lastGossip'.before.kind # "json")
         => disk'[lastGossip'.remote] = disk[lastGossip'.remote]]_vars

\* an ensureBidirectionalLink call that found no data.json or an invalid one
C9_Witness ==
    lastGossip.op = "ensure" /\ lastGossip.before.kind # "json"

\* C10: ensureBidirectionalLink writes only when it added a path; run again with
\* the same neighborVaults on the data.json it left, it writes nothing and
\* leaves discoveredVaults as after the first run.
C10_WritesOnlyWhenAdding ==
    (lastGossip.op = "ensure" /\ lastGossip.dir # <<>>) =>
        /\ lastGossip.wrote <=> Len(GossipAfter.dv) > Len(lastGossip.before.dv)
        /\ ~ensureBidirectionalLink(disk, lastGossip.self, lastGossip.neighbors,
                                    lastGossip.remote).rec.wrote
        /\ ensureBidirectionalLink(disk, lastGossip.self, lastGossip.neighbors,
                                   lastGossip.remote).disk = disk

\* a run that found every path already known and wrote nothing
C10_Witness ==
    /\ lastGossip.op = "ensure" /\ ~lastGossip.wrote
    /\ lastGossip.before.kind = "json"
    /\ Len(lastGossip.neighbors) = 2
    /\ Contains(lastGossip.before.dv, lastGossip.self)

-----------------------------------------------------------------------------
(* Failing neighbors, lookups and their caches: C11, C13, C14 *)

\* the index.json loadSingleRemoteIndex reads for the neighbor v
IndexRead(v) ==
    IF IndexDirOf(v) = <<>> THEN NoIndex ELSE IndexAt(v, IndexDirOf(v)[1])

\* C11: when the index.json of one neighbor is missing, unreadable, malformed or
\* half-written, the reload still completes, and globalIndex then holds every
\* entry of each neighbor that loads and no entry of a neighbor that fails.
C11_FailingNeighborIsolated ==
    (runs = <<>> /\ hasCompleted) =>
        \A i \in 1..Len(settings.neighborVaults) :
            LET v == settings.neighborVaults[i] IN
            IF IndexRead(v).kind = "json"
            THEN \A f \in DOMAIN IndexRead(v).files :
                    \E k \in 1..Len(IndexGet(globalIndex, f)) :
                        globalIndex[f][k] =
                            [vaultPath |-> v, fileInfo |-> IndexRead(v).files[f]]
            ELSE \A f \in DOMAIN globalIndex :
                    \A k \in 1..Len(globalIndex[f]) : globalIndex[f][k].vaultPath # v

\* a reload has completed over a half-written index.json and a good one
C11_Witness ==
    /\ runs = <<>> /\ hasCompleted
    /\ IndexRead("P").kind = "partial"
    /\ IndexRead("Q").kind = "json"
    /\ NameZ \in DOMAIN globalIndex

\* hrefs to look up: with folder and anchor, bare, with extension, an anchor
\* only, with folder and extension, and one no neighbor publishes
TestHrefs ==
    {HrefAnchor, HrefZ, NameN, <<"#", "h">>, <<"d", "/", "z", ".", "m", "d">>, <<"q">>}

\* the lookup without any cache: parse the href, query globalIndex
Uncached(h) == IndexGet(globalIndex, NormalizeFresh(ParseBaseName(h)))

\* C13: whenever no reload is in flight, after any earlier lookups,
\* lookupInGlobalIndex(h) returns what the uncached lookup of h's parsed
\* filename returns and isRemoteMatch(h) whether that is non-empty; a miss of
\* isRemoteMatch is then in negativeCache and a hit in lookupCache.
C13_CachesChangeNoAnswer ==
    runs = <<>> =>
        \A h \in TestHrefs :
            /\ lookupInGlobalIndex(Engine, h).ret = Uncached(h)
            /\ isRemoteMatch(Engine, h).ret = (Uncached(h) # <<>>)
            /\ IF Uncached(h) = <<>>
               THEN h \in isRemoteMatch(Engine, h).c.neg
               ELSE /\ Has(isRemoteMatch(Engine, h).c.lookup, h)
                    /\ isRemoteMatch(Engine, h).c.lookup[h] # <<>>

\* with no reload in flight, a miss sits in negativeCache and lookupCache holds
\* entries of earlier lookups
C13_Witness ==
    /\ runs = <<>> /\ hasCompleted
    /\ HrefZ \in negativeCache
    /\ Has(lookupCache, HrefZ)
    /\ lastOp.op = "click"

-----------------------------------------------------------------------------
(* A store that never forgets: C15 *)

\* the settings tab without its Forget button
NextKeep ==
    \/ ScanForVaults
    \/ \E v \in Peers : BrowseAdd(v)
    \/ \E v \in Peers : ToggleEnable(v)
    \/ \E v \in Peers : ToggleDisable(v)
    \/ SaveLands
    \/ Restart
    \/ \E x \in Peers : \E n \in PeerNeighbors(x) : PeerGossip(x, n)

SpecKeep == InitGossip /\ [][NextKeep]_vars

\* C15: once another store's ensureBidirectionalLink wrote its path into this
\* store's data.json, the path stays in neighborVaults or discoveredVaults of
\* that file in every later state while nobody forgets it, also when the
\* running plugin, which loaded its settings earlier, saves them.
C15_GossipedPathStays ==
    [][\A p \in Peers :
          Known(DataIn(disk[LocalPath], OwnDir), p)
              => Known(DataIn(disk'[LocalPath], OwnDir), p)]_vars

-----------------------------------------------------------------------------
(* addNeighborVault: C16 *)

Count(seq, v) == Cardinality({i \in 1..Len(seq) : seq[i] = v})

-----------------------------------------------------------------------------
(* The end of a reload: C14 *)

\* what the end of loadRemoteIndices leaves: the flag down, the two caches
\* holding only what the refresh that follows looked up, every rendered link
\* whose file the map has marked
Settled ==
    /\ ~isLoadingIndices
    /\ negativeCache \subseteq {h \in Range(DomLinks) : Uncached(h) = <<>>}
    /\ \A h \in TestHrefs :
          Has(lookupCache, h) =>
              (h \in Range(DomLinks) /\ lookupInGlobalIndex(Engine, h).ret = Uncached(h))
    /\ \A h \in Range(DomLinks) : Uncached(h) # <<>> => h \in linkClass

\* C14: every loadRemoteIndices call in flight completes, whichever of its
\* reads fail; the step that completes one (lastOp is "loaded") leaves the flag down, the caches
\* cleared again and the open views refreshed, so that a link rendered while
\* it ran is marked cross-vault when the loaded map has its file.
C14_RunCompletesAndRefreshes ==
    /\ \A k \in 1..MaxRuns : InFlight(k) ~> ~InFlight(k)
    /\ [](lastOp.op = "loaded" => Settled)

\* a reload in which P's index failed to load has completed, and the link that
\* was answered "no" earlier carries the mark
C14_Witness ==
    /\ runs = <<>> /\ lastOp.op = "loaded"
    /\ IndexRead("P").kind # "json"
    /\ HrefZ \in askedFalse
    /\ HrefZ \in linkClass

-----------------------------------------------------------------------------
(* Scan for Vaults over any parent folder: C17, C18, C19 *)

\* the listings a parent folder may have: up to MaxEntries different entries
Listings ==
    {l \in UNION {[1..n -> Entries] : n \in 0..MaxEntries} :
        \A i, j \in 1..Len(l) : l[i] = l[j] => i = j}

InitScan ==
    /\ \E nv \in {<<>>, <<"P">>}, dv \in {<<>>, <<"Q">>} :
          settings = SettingsOf(nv, dv, "c1")
    /\ disk = [s \in Stores |->
                 IF s = LocalPath
                 THEN <<PluginDir(OwnDir, "match", DataOf(settings), NoIndex)>>
                 ELSE LayoutFresh]
    /\ \E state \in {"ok", "missing", "denied"}, l \in Listings :
          siblings = Parent(state, IF state = "missing" THEN <<>> ELSE l)
    /\ pendingSaves = <<>>
    /\ dom = [links |-> <<>>, embeds |-> <<>>]
    /\ InitEngine
    /\ InitNoDocs

NextScan ==
    \/ ScanForVaults
    \/ \E v \in Peers : Forget(v)
    \/ SaveLands

SpecScan == InitScan /\ [][NextScan]_vars

\* C17: over a readable parent folder scanForVaults returns, each once, exactly
\* the entries that are directories with a readable .obsidian directory in
\* them, whatever else the folder holds and wherever an unreadable one comes.
C17_ScanFindsExactlyVaults ==
    (lastOp.op = "scan" /\ siblings.state = "ok") =>
        /\ Range(lastOp.opened) =
               {e \in Range(siblings.entries) : isDirectory(e) /\ Marker(e) = "dir"}
        /\ Len(lastOp.opened) = Cardinality(Range(lastOp.opened))

\* a scan met an unreadable folder first and returned the two stores after it
C17_Witness ==
    /\ lastOp.op = "scan"
    /\ siblings.state = "ok"
    /\ Len(siblings.entries) = 3
    /\ siblings.entries[1] = "D"
    /\ Len(lastOp.opened) = 2

\* C18: when the parent folder is missing or may not be read, what
\* scanForVaults hands its caller differs from what it hands it for a readable
\* parent folder without any store.
C18_FailedScanTellsApart ==
    (lastOp.op = "scan" /\ siblings.state # "ok") =>
        <<lastOp.opened, lastOp.ret>> #
            <<scanForVaults(NoParent).vaults, scanForVaults(NoParent).threw>>

\* the scanned paths the merge has to add: new to both lists, not the own root
FreshOf(st, vaults) ==
    SelectSeq(vaults, LAMBDA v : /\ ~Contains(st.neighborVaults, v)
                                 /\ ~Contains(st.discoveredVaults, v)
                                 /\ v # LocalPath)

\* C19: a Scan for Vaults step leaves neighborVaults as it was, appends to
\* discoveredVaults exactly the scanned paths that were in neither list and are
\* not the local root, and hands the settings to saveData exactly when it
\* appended one.
C19_ScanMergeAddsFresh ==
    [][lastOp'.op = "scan" =>
          /\ settings'.neighborVaults = settings.neighborVaults
          /\ settings'.discoveredVaults =
                 settings.discoveredVaults \o FreshOf(settings, lastOp'.opened)
          /\ settings'.other = settings.other
          /\ (pendingSaves' # pendingSaves) <=> (FreshOf(settings, lastOp'.opened) # <<>>)]_vars

\* a scan that found the local root, a neighbor and a new store has added the
\* new one only and handed the settings to saveData
C19_Witness ==
    /\ lastOp.op = "scan"
    /\ lastOp.opened = <<"L", "P", "Q">>
    /\ settings.neighborVaults = <<"P">>
    /\ settings.discoveredVaults = <<"Q">>
    /\ Len(pendingSaves) = 1
    /\ pendingSaves[1].data.dv = <<"Q">>

-----------------------------------------------------------------------------
(* Publishing the local index and loading it back: C12 *)

\* the store has loaded, as the only neighbor, the index of its documents as
\* they are
LoadedOwnIndex ==
    /\ lastOp.op = "loaded"
    /\ runs = <<>>
    /\ IndexAt(LocalPath, OwnDir) = generateLocalIndex(docs)

\* the entries of globalIndex, whatever their key
Matches == UNION {Range(globalIndex[f]) : f \in DOMAIN globalIndex}

\* C12 as stated: after publishing and loading back, globalIndex has one entry
\* per source document, with its path and mtime, also when documents of
\* different folders have the same file name.
C12_OneEntryPerDocument ==
    LoadedOwnIndex =>
        \A i \in 1..Len(docs) :
            [vaultPath |-> LocalPath, fileInfo |-> FileInfo(docs[i].path, docs[i].mtime)]
                \in Matches

\* C12 amended: after publishing and loading back, globalIndex has exactly the
\* file names of the documents as keys, and every entry under a name carries
\* the path and mtime of the document of that name that getMarkdownFiles lists
\* last: documents of one name share an entry, the others have their own.
C12_OneEntryPerName ==
    LoadedOwnIndex =>
        /\ DOMAIN globalIndex = {docs[i].name : i \in 1..Len(docs)}
        /\ \A i \in 1..Len(docs) :
              (\A j \in (i + 1)..Len(docs) : docs[j].name # docs[i].name) =>
                  Range(globalIndex[docs[i].name]) =
                      {[vaultPath |-> LocalPath,
                        fileInfo |-> FileInfo(docs[i].path, docs[i].mtime)]}

\* three documents, two of them of one name, published and loaded back
C12_Witness ==
    /\ LoadedOwnIndex
    /\ Len(docs) = 3
    /\ docs[1].name = docs[3].name
    /\ Cardinality(Matches) = 2

-----------------------------------------------------------------------------
(* The debounced rebuild: C20 *)

\* C20: the index is rebuilt only when the timer runs out, in a step that
\* changes no document and leaves the timer idle, so once for the events since
\* the timer was started and after the last of them; the index built is that
\* of the documents as they then are, and is the published one when the write
\* succeeded; whenever the timer is idle the last index built is that of the
\* current documents, and a started timer runs out.
C20_OneRebuildAfterBurst ==
    /\ [][(built' # built \/ lastOp'.op = "generate") =>
             /\ timer = "armed" /\ timer' = "idle"
             /\ docs' = docs
             /\ built' = generateLocalIndex(docs)
             /\ lastOp'.ret => IndexAt(LocalPath, OwnDir)' = built']_vars
    /\ [](timer = "idle" => built = generateLocalIndex(docs))
    /\ (timer = "armed") ~> (timer = "idle")

\* a rebuild has just run after a burst of several events, and published the
\* index of the documents
C20_Witness ==
    /\ lastOp.op = "generate"
    /\ lastOp.added
    /\ timer = "idle"
    /\ Len(docs) >= 2
    /\ IndexAt(LocalPath, OwnDir) = generateLocalIndex(docs)

-----------------------------------------------------------------------------
(* A failed write of index.json: C21 *)

\* C21: a generateLocalIndex call whose writeFile fails leaves the index.json
\* that was published before with the content it had.
C21_FailedWriteKeepsIndex ==
    [][(lastOp'.op = "generate" /\ ~lastOp'.ret /\ IndexAt(LocalPath, OwnDir).kind = "json")
          => IndexAt(LocalPath, OwnDir)' = IndexAt(LocalPath, OwnDir)]_vars

-----------------------------------------------------------------------------
(* parseLinkHref: C22, C23 *)

\* C22: the filename parseLinkHref returns, parsed again, comes back as it is.
C22_ParseIdempotent ==
    lastOp.op = "parse" =>
        parseLinkHref(normalizationCache, lastOp.opened[1]).filename = lastOp.opened[1]

\* the text of s after its first '#', '' when it has none
AfterFirstHash(s) ==
    IF Positions(s, "#") = {} THEN <<>>
    ELSE SubSeq(s, Min(Positions(s, "#")) + 1, Len(s))

\* C23: the anchor parseLinkHref returns is all of the href after its first
\* '#', later '#' characters included, and empty when the href has none.
C23_AnchorAfterFirstHash ==
    lastOp.op = "parse" => lastOp.opened[2] = AfterFirstHash(lastOp.href)

-----------------------------------------------------------------------------
(* extractBlockContent: C24, C25, C26 *)

ExtractRef == lastOp.href
ExtractLines == SplitLines(lastOp.opened[1])
ExtractResult == lastOp.opened[2]
HeadingAnchor == lastOp.op = "extract" /\ ExtractRef # <<>> /\ ExtractRef[1] # "^"
BlockAnchor == lastOp.op = "extract" /\ ExtractRef # <<>> /\ ExtractRef[1] = "^"

\* a heading line is '#' markers, whitespace, and the title
IsHeadingLine(line) ==
    Hashes(line) >= 1 /\ Hashes(line) < Len(line) /\ IsSpace(line[Hashes(line) + 1])
TitleOf(line) == trim(SubSeq(line, Hashes(line) + 1, Len(line)))
TitledLines(lines, title) ==
    {i \in 1..Len(lines) : IsHeadingLine(lines[i]) /\ toLower(TitleOf(lines[i])) = toLower(title)}
SectionEnd(lines, h) ==
    Min({i \in (h + 1)..Len(lines) :
            IsHeadingLine(lines[i]) /\ Hashes(lines[i]) <= Hashes(lines[h])}
          \cup {Len(lines) + 1})
SectionOf(lines, h) == SubSeq(lines, h, SectionEnd(lines, h) - 1)
Section == SectionOf(ExtractLines, Min(TitledLines(ExtractLines, ExtractRef)))

\* C24 as stated: for a heading anchor the result is the lines from the first
\* heading with that title up to, excluding, the next heading with at most as
\* many '#', or to the end of the document.
C24_SectionLines ==
    (HeadingAnchor /\ TitledLines(ExtractLines, ExtractRef) # {})
        => ExtractResult = JoinLines(Section)

\* C24 amended: the result is those lines without the whitespace and the blank
\* lines at the end of the section.
C24_SectionLinesTrimmed ==
    (HeadingAnchor /\ TitledLines(ExtractLines, ExtractRef) # {})
        => ExtractResult = trim(JoinLines(Section))

\* a section that keeps a deeper heading and stops at a heading of its own depth
C24_Witness ==
    /\ HeadingAnchor
    /\ TitledLines(ExtractLines, ExtractRef) # {}
    /\ Len(Section) = 2
    /\ IsHeadingLine(Section[2])
    /\ Hashes(Section[2]) > Hashes(Section[1])
    /\ Len(ExtractLines) = 3
    /\ IsHeadingLine(ExtractLines[3])
    /\ Section[1] = ExtractLines[1]
    /\ ExtractResult = JoinLines(Section)

\* the lines that, without their trailing whitespace, end with the marker
MarkedLines(lines, marker) == {i \in 1..Len(lines) : endsWith(trimEnd(lines[i]), marker)}
Unmarked(t, marker) == trim(SubSeq(t, 1, Len(t) - Len(marker)))
FirstMarked == ExtractLines[Min(MarkedLines(ExtractLines, ExtractRef))]

C26_NotFoundFullContent ==
    /\ (BlockAnchor /\ MarkedLines(ExtractLines, ExtractRef) = {})
          => ExtractResult = lastOp.opened[1]
    /\ (HeadingAnchor /\ TitledLines(ExtractLines, ExtractRef) = {})
          => ExtractResult = lastOp.opened[1]

\* a marker no line carries, in a document that has another marker, headings
\* and whitespace at its end
C26_Witness ==
    /\ BlockAnchor
    /\ MarkedLines(ExtractLines, ExtractRef) = {}
    /\ MarkedLines(ExtractLines, <<"^", "a">>) # {}
    /\ \E i \in 1..Len(ExtractLines) : IsHeadingLine(ExtractLines[i])
    /\ trim(lastOp.opened[1]) # lastOp.opened[1]
    /\ ExtractResult = lastOp.opened[1]

-----------------------------------------------------------------------------
(* loadSingleRemoteIndex: C27, C28 *)

\* the index.json a reload is to take for the store v: the one at the current
\* location when there is one, else the legacy one, else none
Located(v) ==
    IF IndexAt(v, PLUGIN_ID).kind # "none" THEN IndexAt(v, PLUGIN_ID)
    ELSE IndexAt(v, LegacyDir)
Offered(index, f) ==
    IF index.kind = "json" /\ f \in DOMAIN index.files THEN {index.files[f]} ELSE {}
\* what globalIndex holds for the document f from the store v
HeldInfo(v, f) ==
    {globalIndex[f][k].fileInfo :
        k \in {j \in 1..Len(IndexGet(globalIndex, f)) : globalIndex[f][j].vaultPath = v}}

\* C27: once the reloads have completed, what globalIndex holds of a neighbor is
\* what its index.json at the current location lists when that file exists,
\* what the legacy one lists when only that exists, and nothing when neither does.
C27_CurrentThenLegacy ==
    (runs = <<>> /\ hasCompleted) =>
        \A i \in 1..Len(settings.neighborVaults) : \A f \in {NameN, NameZ} :
            HeldInfo(settings.neighborVaults[i], f)
                = Offered(Located(settings.neighborVaults[i]), f)

\* a reload has completed over a neighbor with both files and one with neither
C27_Witness ==
    /\ runs = <<>> /\ hasCompleted
    /\ settings.neighborVaults = <<"P", "Q">>
    /\ IndexAt("P", PLUGIN_ID) = IndexOfNZ("P")
    /\ IndexAt("P", LegacyDir) = IndexOld("P")
    /\ HeldInfo("P", NameN) = {InfoN("P")}
    /\ Located("Q") = NoIndex
    /\ HeldInfo("Q", NameN) = {}

\* how many entries the list of f has from the store v
HeldCount(v, f) ==
    Cardinality({j \in 1..Len(IndexGet(globalIndex, f)) : globalIndex[f][j].vaultPath = v})
AllLoad == \A i \in 1..Len(settings.neighborVaults) :
              Located(settings.neighborVaults[i]).kind = "json"

\* C28: after a reload that no other run overlapped and in which every
\* neighbor loaded, the list of every document name has exactly one entry for
\* each neighbor that publishes it, the one that neighbor publishes, and none
\* for any other store.
C28_OneEntryPerPublisher ==
    (runs = <<>> /\ hasCompleted /\ AllLoad) =>
        \A f \in DOMAIN globalIndex \cup {NameN, NameZ} : \A v \in Stores :
            IF Contains(settings.neighborVaults, v)
            THEN /\ HeldCount(v, f) = Cardinality(Offered(Located(v), f))
                 /\ HeldInfo(v, f) = Offered(Located(v), f)
            ELSE HeldCount(v, f) = 0

\* both neighbors publish n: its list has the entry of each
C28_Witness ==
    /\ runs = <<>> /\ hasCompleted /\ AllLoad
    /\ Len(IndexGet(globalIndex, NameN)) = 2
    /\ HeldCount("P", NameN) = 1
    /\ HeldCount("Q", NameN) = 1
    /\ HeldInfo("P", NameN) # HeldInfo("Q", NameN)

-----------------------------------------------------------------------------
(* The flag isLoadingIndices: C29, C30 *)

\* C29: isLoadingIndices is true in exactly the states in which a
\* loadRemoteIndices call has started and not completed.
C29_FlagIffRunInFlight == isLoadingIndices <=> runs # <<>>

\* C30: whenever isLoadingIndices is true negativeCache is empty, and
\* processEmbed returns at its negativeCache check only while the flag is down.
C30_NoSkipWhileLoading ==
    /\ isLoadingIndices => negativeCache = {}
    /\ lastOp.op = "processEmbed" => ~isLoadingIndices

\* an embed that was answered false before is asked about again, not skipped,
\* while a reload is in flight
C30_Witness ==
    /\ isLoadingIndices
    /\ negativeCache = {}
    /\ lastOp.op = "isRemoteMatch"
    /\ lastOp.href = HrefQ
    /\ HrefQ \in askedFalse
    /\ hasCompleted

-----------------------------------------------------------------------------
(* The map over changing neighbors and overlapping reloads: C31, C32, C33 *)

\* C31: once every save has started its reload and every reload has
\* completed, each entry of globalIndex is of a store that is in neighborVaults.
C31_OnlyCurrentNeighbors ==
    (runs = <<>> /\ pendingSaves = <<>> /\ hasCompleted) =>
        \A e \in Matches : Contains(settings.neighborVaults, e.vaultPath)

\* C32: no list of globalIndex ever has two entries of the same store.
C32_NoDuplicateEntries ==
    \A f \in DOMAIN globalIndex : \A v \in Stores : HeldCount(v, f) <= 1

\* C33: whenever isRemoteMatch(h) returns true, globalIndex has a non-empty
\* list for the normalized filename of h.
C33_TrueIsInIndex ==
    (lastOp.op = "isRemoteMatch" /\ lastOp.ret) =>
        IndexGet(globalIndex, NormalizeFresh(ParseBaseName(lastOp.href))) # <<>>

\* true answered from lookupCache while a reload is in flight, after a click
\* handler looked the href up
C33_Witness ==
    /\ lastOp.op = "isRemoteMatch"
    /\ lastOp.ret
    /\ ~lastOp.added
    /\ runs # <<>>
    /\ IndexGet(globalIndex, NormalizeFresh(ParseBaseName(lastOp.href))) # <<>>

-----------------------------------------------------------------------------
(* Two stores writing this store's data.json: C34 *)

\* C34: when the ensureBidirectionalLink calls of both other stores on this
\* store's data.json have finished, its discoveredVaults has the path of each.
C34_NoLostSuggestion ==
    (\A x \in Peers : peerOps[x].state = "done") =>
        \A x \in Peers : Contains(DataIn(disk[LocalPath], OwnDir).dv, x)

-----------------------------------------------------------------------------
(* The store's own path: C35 *)

\* C35: the store's own path is never in its discoveredVaults, in memory or in
\* its data.json, whatever scans of the parent folder and gossip writes of
\* other stores came before.
C35_SelfNotDiscovered ==
    /\ ~Contains(settings.discoveredVaults, LocalPath)
    /\ ~Contains(DataIn(disk[LocalPath], OwnDir).dv, LocalPath)

\* a scan that found the store itself and others, after another store's gossip
\* wrote into this store's data.json
C35_Witness ==
    /\ lastOp.op = "scan"
    /\ Contains(lastOp.opened, LocalPath)
    /\ Len(settings.discoveredVaults) >= 1
    /\ \E x \in Peers : Contains(DataIn(disk[LocalPath], OwnDir).dv, x)
    /\ ~Contains(settings.discoveredVaults, LocalPath)

-----------------------------------------------------------------------------
(* Embeds rendered once: C36 *)

\* C36: no embed element gets past the mark check of renderRemoteEmbed twice,
\* whoever calls processEmbed on it and however often.
C36_RenderedAtMostOnce ==
    \A src \in DOMAIN renders : renders[src] <= 1 /\ src \in embedProcessed

\* processEmbed called on an element that was rendered before
C36_Witness ==
    /\ lastOp.op = "marked"
    /\ Has(renders, lastOp.href)
    /\ renders[lastOp.href] = 1


\* C37: once no write of generateLocalIndex is under way, index.json holds the
\* index of the documents enumerated by the call that started last
C37_LastStartedWins ==
    (writes = <<>> /\ lastOp.op = "written") => IndexAt(LocalPath, OwnDir) = built

\* C38: in the batching of initDomObserver at most one animation-frame callback
\* is outstanding; an element added to pendingElements stays pending, with a
\* callback scheduled, until a processBatch run processes it, and a run
\* processes only elements added since the run before, so that each addition
\* is processed by exactly one later run
C38_BatchState ==
    /\ observer.frames <= 1
    /\ observer.due \subseteq Range(observer.pending)
    /\ Len(observer.pending) > 0 => observer.frames >= 1 /\ observer.rafScheduled
    /\ lastOp.op = "batch" => lastOp.ret
C38_BatchedOnce ==
    /\ []C38_BatchState
    /\ \A el \in Elements :
          (el \in observer.due) ~> (lastOp.op = "batch" /\ el \in Range(lastOp.opened))
C38_Witness ==
    /\ lastOp.op = "batch"
    /\ Len(lastOp.opened) = 2
    /\ observer = ObserverIdle
    /\ NameN \in embedProcessed

\* C39 as stated: no step removes an entry from normalizationCache, and every
\* entry maps a name to what the stateless normalization gives for it
MemoSound ==
    \A name \in DOMAIN normalizationCache :
        normalizationCache[name] = NormalizeFresh(name)
C39_NeverInvalidated ==
    /\ []MemoSound
    /\ [][\A name \in DOMAIN normalizationCache : Has(normalizationCache', name)]_vars

\* C39: the start of a reload, the step that adds a run, empties
\* normalizationCache; every other step, the end of a reload included, keeps
\* each entry as it is; and every entry maps a name to what the stateless
\* normalization gives for it
C39_ClearedOnlyAtLoadStart ==
    /\ []MemoSound
    /\ [][IF Len(runs') > Len(runs)
          THEN normalizationCache' = EmptyMap
          ELSE \A name \in DOMAIN normalizationCache :
                  /\ Has(normalizationCache', name)
                  /\ normalizationCache'[name] = normalizationCache[name]]_vars
C39_Witness ==
    /\ normalizationCache = EmptyMap
    /\ Len(runs) > 0
    /\ hasCompleted
    /\ linkClass # {}
====
